---- MODULE Spec2Model ----
(***************************************************************************)
(* A model of docvault-ai's document pipeline (backend/app/ml), of its     *)
(* workflow rule engine (backend/app/services/workflow_service.py), of its *)
(* search (backend/app/services/search_service.py), of its document store  *)
(* (backend/app/services/document_service.py, admin_service.py) and of the *)
(* upload request (backend/app/api/documents.py).                          *)
(*                                                                         *)
(* Text.  A Python str is modelled as a sequence of chunks [w, n]: w is a  *)
(* word of the vocabulary (written with its trailing blank) or one of the  *)
(* two pad characters "#" and " ", and n is the number of characters of   *)
(* it that are present (for a pad: the run length).  Slicing, strip(),     *)
(* lower(), substring tests and the regular expressions of ner.py are      *)
(* computed on this representation to the character.                       *)
(*                                                                         *)
(* Numbers.  A confidence is an integer number of ten-thousandths          *)
(* (round(x, 4) * 10000).                                                  *)
(***************************************************************************)
EXTENDS Integers, Sequences, FiniteSets, TLC

VARIABLES
    content,      \* the uploaded bytes: [text, has_layer]
    mime_type,    \* the upload's content type, or NoMime when the part has none
    p_env,        \* the outcome of each external library call during the run
    p_state,      \* "ready" | "returned" | "raised"
    p_result,     \* the record process_document returned
    p_calls,      \* the capability calls process_document made, in order
    _workflows,   \* the rule store, in insertion order (a dict keeps it)
    next_id,      \* the number of rules created so far (ids are never reused)
    document,     \* the document dict handed to evaluate
    op,           \* the last operation of the rule engine
    ret,          \* what that operation returned
    tasks,        \* the calls of the rule engine in flight, each with its locals
    running,      \* the task that holds the event loop, 0 when none does
    _documents,   \* the document store, in insertion order
    _entities,    \* the entity store: document id -> list of entities
    s_args,       \* the arguments of the last search call
    s_ret,        \* what that call returned
    _users,       \* the ids of the registered users
    doc_count,    \* the number of documents created so far (ids are never reused)
    d_ret         \* the last call on the document store, and what it returned

pipeline_vars == <<content, mime_type, p_env, p_state, p_result, p_calls>>

rule_vars == <<_workflows, next_id, document, op, ret>>

task_vars == <<tasks, running>>

search_vars == <<_documents, _entities, s_args, s_ret, _users, doc_count, d_ret>>

vars == <<pipeline_vars, rule_vars, task_vars, search_vars>>

\* no call of the rule engine is in flight
UnusedTasks == tasks = <<>> /\ running = 0

\* no search call has been made
NoSearch == [total |-> -1]

\* no call on the document store has been made
NoCall == [call |-> "none"]

\* the document store is empty and nothing has been searched
UnusedSearch ==
    /\ _documents = <<>> /\ _entities = <<>> /\ s_args = NoSearch /\ s_ret = NoSearch
    /\ _users = {} /\ doc_count = 0 /\ d_ret = NoCall

----------------------------------------------------------------------------
(* Bounds of the model *)

\* the longest text body, in vocabulary words
MaxChunks == 2

\* the number of rules ever created
MaxRules == 2

\* the greatest trigger_count a rule reaches
MaxTriggers == 2

----------------------------------------------------------------------------
(* Text *)

Chunk(w, n) == [w |-> w, n |-> n]

Words == {"invoice ", "subtotal due ", "bill payment due ", "memorandum ",
          "Paris ", "paris ", "a@b.co "}

WordLen(w) ==
    CASE w = "invoice " -> 8
      [] w = "subtotal due " -> 13
      [] w = "bill payment due " -> 17
      [] w = "memorandum " -> 11
      [] w = "Paris " -> 6
      [] w = "paris " -> 6
      [] w = "a@b.co " -> 7

\* the positions of the blanks of a word
SpacePos(w) ==
    CASE w = "subtotal due " -> {9, 13}
      [] w = "bill payment due " -> {5, 13, 17}
      [] w \in Words -> {WordLen(w)}
      [] OTHER -> {}

Word(w) == Chunk(w, WordLen(w))

RECURSIVE TextLen(_)
\* len(text)
TextLen(t) == IF t = <<>> THEN 0 ELSE Head(t).n + TextLen(Tail(t))

RECURSIVE Take(_, _)
\* text[:k]
Take(t, k) ==
    IF t = <<>> \/ k <= 0 THEN <<>>
    ELSE IF Head(t).n <= k THEN <<Head(t)>> \o Take(Tail(t), k - Head(t).n)
    ELSE <<Chunk(Head(t).w, k)>>

\* not text.strip()
IsBlank(t) == \A i \in 1..Len(t) : t[i].w = " "

RECURSIVE LStrip(_)
LStrip(t) == IF t # <<>> /\ Head(t).w = " " THEN LStrip(Tail(t)) ELSE t

RECURSIVE RStrip(_)
RStrip(t) ==
    IF t = <<>> THEN <<>>
    ELSE LET c == t[Len(t)]
             rest == SubSeq(t, 1, Len(t) - 1)
         IN IF c.w = " " \/ c.n = 0 THEN RStrip(rest)
            ELSE IF c.n \in SpacePos(c.w) THEN RStrip(rest \o <<Chunk(c.w, c.n - 1)>>)
            ELSE t

\* text.strip()
Strip(t) == RStrip(LStrip(t))

\* str.lower() of a word
LowerWord(w) == IF w = "Paris " THEN "paris " ELSE w

\* text.lower()
Lower(t) == [i \in 1..Len(t) |-> Chunk(LowerWord(t[i].w), t[i].n)]

\* the index at which the first occurrence of kw in the word w ends, 0 if none
Occurs(kw, w) ==
    CASE w = "invoice " /\ kw = "invoice" -> 7
      [] w = "subtotal due " /\ kw = "subtotal" -> 8
      [] w = "subtotal due " /\ kw = "total due" -> 12
      [] w = "bill payment due " /\ kw = "bill" -> 4
      [] w = "bill payment due " /\ kw = "payment due" -> 16
      [] w = "memorandum " /\ kw = "memo" -> 4
      [] w = "memorandum " /\ kw = "memorandum" -> 10
      [] OTHER -> 0

\* kw in text
Contains(t, kw) ==
    \E i \in 1..Len(t) : Occurs(kw, t[i].w) > 0 /\ t[i].n >= Occurs(kw, t[i].w)

RECURSIVE Offset(_, _)
\* the number of characters before chunk i
Offset(t, i) == IF i <= 1 THEN 0 ELSE t[i - 1].n + Offset(t, i - 1)

----------------------------------------------------------------------------
(* ml/classifier.py *)

\* one, in ten-thousandths: the unit of round(x, 4)
Unit == 10000

\* DocumentClassifier.classify's max_length
ClassifyMaxLength == 1024

DOCUMENT_CATEGORIES ==
    <<"invoice", "contract", "report", "letter", "form", "receipt", "memo", "other">>

CategorySet == {DOCUMENT_CATEGORIES[i] : i \in 1..Len(DOCUMENT_CATEGORIES)}

DefaultClassification == [raised |-> FALSE, label |-> "other", confidence |-> 0]

ClassifyRaised == [raised |-> TRUE, label |-> "", confidence |-> 0]

\* the zero-shot model's label for a word (the model is an external capability:
\* any function of its input that answers one of the candidate labels)
ZeroShotTopic(w) ==
    CASE w \in {"invoice ", "subtotal due "} -> "invoice"
      [] w = "bill payment due " -> "receipt"
      [] w = "memorandum " -> "memo"
      [] w \in {"Paris ", "paris "} -> "letter"
      [] OTHER -> "form"

\* self.classifier(truncated_text, candidate_labels=self.categories, ...):
\* labels[0] and scores[0], decided by the last word that is wholly present
ZeroShotModel(t) ==
    LET whole == {i \in 1..Len(t) : t[i].w \in Words /\ t[i].n >= WordLen(t[i].w) - 1}
        last == CHOOSE i \in whole : \A j \in whole : j <= i
    IN IF whole = {} THEN [label |-> "other", score |-> Unit \div 4]
       ELSE [label |-> ZeroShotTopic(t[last].w),
             score |-> Unit - (Unit \div (last + 1))]

\* a slip: the text is passed on whole
Truncate_Off(text, max_length) == text

\* text[:max_length] if len(text) > max_length else text
Truncate(text, max_length) ==
    IF TextLen(text) > max_length THEN Take(text, max_length) ELSE text

\* DocumentClassifier.classify(text); clf is what the injected classifier does:
\*   "ok"          the model answers
\*   "model_error" the model call raises inside classify
\*   "not_loaded"  the model failed to load (self.classifier is None)
\*   "raises"      classify itself raises to its caller
DocumentClassifier_classify(text, clf) ==
    IF clf = "raises" THEN ClassifyRaised
    ELSE IF clf = "not_loaded" THEN DefaultClassification
    ELSE LET truncated_text == Truncate(text, ClassifyMaxLength)
         IN IF IsBlank(truncated_text) THEN DefaultClassification
            ELSE IF clf = "model_error" THEN DefaultClassification
            ELSE LET result == ZeroShotModel(truncated_text)
                 IN [raised |-> FALSE, label |-> result.label,
                     confidence |-> result.score]

KEYWORDS ==
    [invoice |-> {"invoice", "bill", "payment due", "amount due", "total due", "subtotal"},
     contract |-> {"agreement", "contract", "terms and conditions", "hereby agree",
                   "party", "whereas"},
     report |-> {"report", "summary", "findings", "analysis", "conclusion",
                 "executive summary"},
     letter |-> {"dear", "sincerely", "regards", "to whom it may concern"},
     form |-> {"form", "please fill", "application", "checkbox", "signature required"},
     receipt |-> {"receipt", "transaction", "paid", "thank you for your purchase"},
     memo |-> {"memo", "memorandum", "to:", "from:", "subject:", "re:"}]

\* the iteration order of the KEYWORDS dict
KeywordOrder == <<"invoice", "contract", "report", "letter", "form", "receipt", "memo">>

\* sum(1 for kw in keywords if kw in text_lower)
KeywordScore(category, text_lower) ==
    Cardinality({kw \in KEYWORDS[category] : Contains(text_lower, kw)})

\* round(num / den, 4), in ten-thousandths
Round4(num, den) == (2 * num * Unit + den) \div (2 * den)

\* a slip: the score is normalised without the cap at 1.0
KeywordConfidence_NoCap(score) == Round4(score, 3)

\* round(min(scores[best_category] / 3, 1.0), 4)
KeywordConfidence(score) ==
    IF Round4(score, 3) < Unit THEN Round4(score, 3) ELSE Unit

\* KeywordClassifier.classify(text)
KeywordClassifier_classify(text) ==
    LET text_lower == Lower(text)
        scores == [c \in DOMAIN KEYWORDS |-> KeywordScore(c, text_lower)]
        top == CHOOSE s \in {scores[c] : c \in DOMAIN KEYWORDS} :
                   \A c \in DOMAIN KEYWORDS : scores[c] <= s
        \* max(scores, key=scores.get): the first key with the greatest score
        first == CHOOSE i \in 1..Len(KeywordOrder) :
                     /\ scores[KeywordOrder[i]] = top
                     /\ \A j \in 1..(i - 1) : scores[KeywordOrder[j]] < top
    IN IF top = 0
       THEN [raised |-> FALSE, label |-> "other", confidence |-> Unit \div 2]
       ELSE [raised |-> FALSE, label |-> KeywordOrder[first],
             confidence |-> KeywordConfidence(scores[KeywordOrder[first]])]

----------------------------------------------------------------------------
(* ml/ner.py *)

\* EntityExtractor.extract's max_length
ExtractMaxLength == 100000

\* the words spaCy recognises as an entity
MentionWords == {"Paris ", "paris "}

\* ent.label_ and ent.text of the entity spaCy finds in a word (spaCy is an
\* external capability: the label it gives depends on the surface form)
MentionOf(w) ==
    IF w = "Paris " THEN [label_ |-> "GPE", text |-> "Paris", len |-> 5]
    ELSE [label_ |-> "LOC", text |-> "paris", len |-> 5]

\* doc.ents of self.nlp(text): one entity for each mention wholly present
SpacyEnts(text) ==
    LET idx == SelectSeq([i \in 1..Len(text) |-> i],
                         LAMBDA i : /\ text[i].w \in MentionWords
                                    /\ text[i].n >= MentionOf(text[i].w).len)
    IN [k \in 1..Len(idx) |->
           [label_ |-> MentionOf(text[idx[k]].w).label_,
            text |-> MentionOf(text[idx[k]].w).text,
            start_char |-> Offset(text, idx[k]),
            end_char |-> Offset(text, idx[k]) + MentionOf(text[idx[k]].w).len]]

\* str.lower() of an entity value
LowerValue(v) == IF v = "Paris" THEN "paris" ELSE v

\* EntityExtractor._map_entity_type
_map_entity_type(spacy_type) ==
    CASE spacy_type = "PERSON" -> "PERSON"
      [] spacy_type = "ORG" -> "ORGANIZATION"
      [] spacy_type = "GPE" -> "LOCATION"
      [] spacy_type = "LOC" -> "LOCATION"
      [] spacy_type = "DATE" -> "DATE"
      [] spacy_type = "TIME" -> "TIME"
      [] spacy_type = "MONEY" -> "MONEY"
      [] spacy_type = "PERCENT" -> "PERCENTAGE"
      [] spacy_type = "CARDINAL" -> "NUMBER"
      [] spacy_type = "ORDINAL" -> "NUMBER"
      [] spacy_type = "QUANTITY" -> "QUANTITY"
      [] spacy_type = "EVENT" -> "EVENT"
      [] spacy_type = "FAC" -> "FACILITY"
      [] spacy_type = "PRODUCT" -> "PRODUCT"
      [] spacy_type = "WORK_OF_ART" -> "WORK"
      [] spacy_type = "LAW" -> "LAW"
      [] spacy_type = "LANGUAGE" -> "LANGUAGE"
      [] spacy_type = "NORP" -> "GROUP"
      [] OTHER -> "OTHER"

\* the key under which extract remembers an entity it has seen:
\* (ent.label_, ent.text.strip().lower())
SeenKey(ent) == <<ent.label_, LowerValue(ent.text)>>

RECURSIVE DedupEnts(_, _, _)
\* the loop of extract over doc.ents, from entity i on
DedupEnts(ents, i, seen) ==
    IF i > Len(ents) THEN <<>>
    ELSE IF SeenKey(ents[i]) \in seen THEN DedupEnts(ents, i + 1, seen)
    ELSE <<[type |-> _map_entity_type(ents[i].label_),
            value |-> ents[i].text,
            original_type |-> ents[i].label_,
            start |-> ents[i].start_char,
            end |-> ents[i].end_char,
            confidence |-> (Unit * 85) \div 100]>>
         \o DedupEnts(ents, i + 1, seen \cup {SeenKey(ents[i])})

\* what a regular expression of _extract_custom_patterns matches in a word:
\* the e-mail pattern matches "a@b.co", and the reference pattern, which ignores
\* case, matches "invoice" (INV, then the four characters OICE)
PatternWords(kind) ==
    CASE kind = "EMAIL" -> {"a@b.co "}
      [] kind = "PHONE" -> {}
      [] kind = "REFERENCE_NUMBER" -> {"invoice "}

PatternValue(w) == IF w = "a@b.co " THEN "a@b.co" ELSE "invoice"

PatternLen(w) == IF w = "a@b.co " THEN 6 ELSE 7

PatternOriginalType(kind) == IF kind = "REFERENCE_NUMBER" THEN "REFERENCE" ELSE kind

PatternConfidence(kind) ==
    CASE kind = "EMAIL" -> (Unit * 95) \div 100
      [] kind = "PHONE" -> (Unit * 90) \div 100
      [] kind = "REFERENCE_NUMBER" -> (Unit * 85) \div 100

\* for match in re.finditer(pattern, text): entities.append(...)
PatternMatches(text, kind) ==
    LET idx == SelectSeq([i \in 1..Len(text) |-> i],
                         LAMBDA i : /\ text[i].w \in PatternWords(kind)
                                    /\ text[i].n >= PatternLen(text[i].w))
    IN [k \in 1..Len(idx) |->
           [type |-> kind,
            value |-> PatternValue(text[idx[k]].w),
            original_type |-> PatternOriginalType(kind),
            start |-> Offset(text, idx[k]),
            end |-> Offset(text, idx[k]) + PatternLen(text[idx[k]].w),
            confidence |-> PatternConfidence(kind)]]

\* EntityExtractor._extract_custom_patterns
_extract_custom_patterns(text) ==
    PatternMatches(text, "EMAIL") \o PatternMatches(text, "PHONE")
        \o PatternMatches(text, "REFERENCE_NUMBER")

\* the entities of the recognised mentions, as extract collects them
RecognisedEntities(text) == DedupEnts(SpacyEnts(text), 1, {})

\* EntityExtractor.extract(text); ner is what spaCy does: "ok" or "nlp_error"
\* (self.nlp(text) raises, which extract catches)
EntityExtractor_extract(text, ner) ==
    IF text = <<>> \/ IsBlank(text) THEN <<>>
    ELSE LET truncated == Truncate(text, ExtractMaxLength)
         IN IF ner = "nlp_error" THEN <<>>
            ELSE RecognisedEntities(truncated) \o _extract_custom_patterns(truncated)

\* EntityExtractor.get_entity_summary
get_entity_summary(entities) ==
    LET types == {entities[i].type : i \in 1..Len(entities)}
    IN [ty \in types |->
           LET idx == SelectSeq([i \in 1..Len(entities) |-> i],
                                LAMBDA i : entities[i].type = ty)
           IN [k \in 1..Len(idx) |-> entities[idx[k]].value]]

----------------------------------------------------------------------------
(* ml/ocr.py *)

\* file.content_type of an upload part that carries no Content-Type (None)
NoMime == "None"

MimeTypes == {"application/pdf", "image/png", "text/plain", "application/msword", NoMime}

\* OCRProcessor.extract_from_pdf: the text layer first, OCR when it is blank;
\* a library call that raises is caught and yields ""
extract_from_pdf(file_bytes, env) ==
    LET layer == IF env.pdf_ok /\ file_bytes.has_layer THEN file_bytes.text ELSE <<>>
        text == IF IsBlank(layer)
                THEN (IF env.ocr_ok THEN file_bytes.text ELSE <<>>)
                ELSE layer
    IN Strip(text)

\* OCRProcessor.extract_from_image
extract_from_image(file_bytes, env) ==
    IF env.ocr_ok THEN Strip(file_bytes.text) ELSE <<>>

\* OCRProcessor.extract_text: [raised, text]
extract_text(file_bytes, mime, env) ==
    IF mime = "application/pdf"
    THEN [raised |-> FALSE, text |-> extract_from_pdf(file_bytes, env)]
    ELSE IF mime = NoMime
    \* None.startswith("image/"): AttributeError
    THEN [raised |-> TRUE, text |-> <<>>]
    ELSE IF mime \in {"image/png"}
    THEN [raised |-> FALSE, text |-> extract_from_image(file_bytes, env)]
    ELSE IF mime \in {"text/plain", "text/html", "text/csv"}
    THEN [raised |-> FALSE, text |-> file_bytes.text]
    ELSE [raised |-> FALSE, text |-> <<>>]

----------------------------------------------------------------------------
(* ml/pipeline.py *)

NoResult == [status |-> "none"]

\* a slip: "if not text", which lets a text of blanks through
NoText_EmptyOnly(text) == text = <<>>

\* if not text.strip(): the pipeline's test for "no text"
NoText(text) == IsBlank(text)

\* step 2 of process_document: classifier.classify(text), and on an exception
\* KeywordClassifier().classify(text)
ClassifyStep(text, clf) ==
    LET first == DocumentClassifier_classify(text, clf)
    IN IF first.raised THEN KeywordClassifier_classify(text) ELSE first

\* process_document(content, mime_type, classifier, entity_extractor):
\* [state, result, calls]
process_document(file_bytes, mime, env) ==
    LET ocr == extract_text(file_bytes, mime, env)
        text == ocr.text
        classification_result == ClassifyStep(text, env.clf)
        entities == EntityExtractor_extract(text, env.ner)
    IN IF ocr.raised
       THEN [state |-> "raised", result |-> NoResult, calls |-> <<"extract_text">>]
       ELSE IF NoText(text)
       THEN [state |-> "returned",
             result |-> [text |-> <<>>, classification |-> "other", confidence |-> 0,
                         entities |-> <<>>, status |-> "no_text"],
             calls |-> <<"extract_text">>]
       ELSE [state |-> "returned",
             result |-> [text |-> text,
                         classification |-> classification_result.label,
                         confidence |-> classification_result.confidence,
                         entities |-> entities,
                         entity_summary |-> get_entity_summary(entities),
                         status |-> "processed"],
             calls |-> <<"extract_text", "classifier.classify">>
                       \o (IF DocumentClassifier_classify(text, env.clf).raised
                           THEN <<"KeywordClassifier.classify">> ELSE <<>>)
                       \o <<"entity_extractor.extract", "get_entity_summary">>]

----------------------------------------------------------------------------
(* The inputs of the pipeline *)

\* a run of pad characters before the words: none, one that lets the classifier's
\* ceiling cut the first word, a blank one as long as that ceiling, and one that
\* lets the extractor's ceiling cut the first word
Leads ==
    {<<>>, <<Chunk("#", ClassifyMaxLength - 4)>>, <<Chunk(" ", ClassifyMaxLength)>>,
     <<Chunk("#", ExtractMaxLength - 2)>>}

Bodies == UNION {[1..k -> {Word(w) : w \in Words}] : k \in 0..MaxChunks}

Texts == {lead \o body : lead \in Leads, body \in Bodies}

\* has_layer matters to a PDF only
Contents(mime) ==
    {[text |-> t, has_layer |-> h] :
        t \in Texts, h \in (IF mime = "application/pdf" THEN BOOLEAN ELSE {TRUE})}

\* the library calls a run can make, each succeeding or raising
Envs(mime) ==
    [pdf_ok : IF mime = "application/pdf" THEN BOOLEAN ELSE {TRUE},
     ocr_ok : IF mime \in {"application/pdf", "image/png"} THEN BOOLEAN ELSE {TRUE},
     clf : {"ok", "model_error", "not_loaded", "raises"},
     ner : {"ok", "nlp_error"}]

NoEnv == [pdf_ok |-> TRUE, ocr_ok |-> TRUE, clf |-> "none", ner |-> "none"]

PipelineInit ==
    /\ _workflows = <<>> /\ next_id = 0 /\ op = "none"
    /\ document = [tags |-> <<>>] /\ ret = [state |-> "none"]
    /\ mime_type \in MimeTypes
    /\ content \in Contents(mime_type)
    /\ p_env = NoEnv
    /\ p_state = "ready"
    /\ p_result = NoResult
    /\ p_calls = <<>>
    /\ UnusedTasks
    /\ UnusedSearch

\* one call of process_document on the upload
ProcessDocument ==
    /\ p_state = "ready"
    /\ \E env \in Envs(mime_type) :
          LET out == process_document(content, mime_type, env)
          IN /\ p_env' = env
             /\ p_state' = out.state
             /\ p_result' = out.result
             /\ p_calls' = out.calls
    /\ UNCHANGED <<content, mime_type>>
    /\ UNCHANGED <<rule_vars, task_vars, search_vars>>

PipelineNext == ProcessDocument

SpecPipeline == PipelineInit /\ [][PipelineNext]_vars

----------------------------------------------------------------------------
(* Python values, as conditions and documents hold them *)

PyNone == [t |-> "none", v |-> 0]
PyStr(x) == [t |-> "str", v |-> x]
PyNum(x) == [t |-> "num", v |-> x]
PyList(x) == [t |-> "list", v |-> x]

RECURSIVE PyEq(_, _)
\* a == b
PyEq(a, b) ==
    /\ a.t = b.t
    /\ IF a.t = "list"
       THEN /\ Len(a.v) = Len(b.v)
            /\ \A i \in 1..Len(a.v) : PyEq(a.v[i], b.v[i])
       ELSE a.t = "none" \/ a.v = b.v

\* x in lst, for a list
PyInList(x, lst) == \E i \in 1..Len(lst) : PyEq(x, lst[i])

\* float(x): [ok, v]; a str converts when it spells a number
PyFloat(x) ==
    CASE x.t = "num" -> [ok |-> TRUE, v |-> x.v]
      [] x.t = "str" /\ x.v = "15000" -> [ok |-> TRUE, v |-> 15000]
      [] x.t = "str" /\ x.v = "2048" -> [ok |-> TRUE, v |-> 2048]
      [] OTHER -> [ok |-> FALSE, v |-> 0]

\* s.lower()
StrLower(x) == IF x = "INV" THEN "inv" ELSE x

\* a in b, for two strs
IsSubstr(a, b) == a = b \/ <<a, b>> \in {<<"inv", "invoice">>, <<"20", "2048">>}

\* str(x)
PyToStr(x) ==
    CASE x.t = "num" /\ x.v = 2048 -> "2048"
      [] x.t = "num" /\ x.v = 1000 -> "1000"
      [] x.t = "num" /\ x.v = 0 -> "0"
      [] OTHER -> x.v

\* a key the document dict does not have
Absent == [t |-> "absent", v |-> 0]

\* document.get(key, default)
DocGet(doc, key, default) == IF doc[key] = Absent THEN default ELSE doc[key]

----------------------------------------------------------------------------
(* services/workflow_service.py *)

\* WorkflowService._get_entity_values
_get_entity_values(doc, entity_type) ==
    LET idx == SelectSeq([i \in 1..Len(doc.entities) |-> i],
                         LAMBDA i : doc.entities[i].type = entity_type)
    IN [k \in 1..Len(idx) |-> PyStr(doc.entities[idx[k]].value)]

\* the document value a condition's field names (_check_conditions, the lookup);
\* any field but these is a key the document does not have
FieldValue(doc, field) ==
    CASE field = "classification" -> DocGet(doc, "classification", PyNone)
      [] field = "file_size" -> DocGet(doc, "file_size", PyNum(0))
      [] field = "mime_type" -> DocGet(doc, "mime_type", PyNone)
      [] field = "entity_MONEY" -> PyList(_get_entity_values(doc, "MONEY"))
      [] field = "entity_money" -> PyList(_get_entity_values(doc, "MONEY"))
      [] field = "tags" -> PyList([k \in 1..Len(doc.tags) |-> PyStr(doc.tags[k])])
      [] OTHER -> PyNone

\* WorkflowService._evaluate_condition: "true", "false" or "raise"
_evaluate_condition(doc_value, operator, condition_value) ==
    LET Bool(b) == IF b THEN "true" ELSE "false"
    IN IF doc_value.t = "none" THEN "false"
       ELSE CASE operator = "equals" -> Bool(PyEq(doc_value, condition_value))
              [] operator = "not_equals" -> Bool(~PyEq(doc_value, condition_value))
              [] operator = "contains" ->
                    IF doc_value.t = "list" THEN Bool(PyInList(condition_value, doc_value.v))
                    \* condition_value.lower(): only a str has it
                    ELSE IF condition_value.t # "str" THEN "raise"
                    ELSE Bool(IsSubstr(StrLower(condition_value.v),
                                       StrLower(PyToStr(doc_value))))
              [] operator = "greater_than" ->
                    IF PyFloat(doc_value).ok /\ PyFloat(condition_value).ok
                    THEN Bool(PyFloat(doc_value).v > PyFloat(condition_value).v)
                    ELSE "raise"
              [] operator = "less_than" ->
                    IF PyFloat(doc_value).ok /\ PyFloat(condition_value).ok
                    THEN Bool(PyFloat(doc_value).v < PyFloat(condition_value).v)
                    ELSE "raise"
              [] operator = "in" ->
                    IF condition_value.t = "list"
                    THEN Bool(PyInList(doc_value, condition_value.v))
                    ELSE IF condition_value.t = "str" /\ doc_value.t = "str"
                    THEN Bool(IsSubstr(doc_value.v, condition_value.v))
                    ELSE "raise"
              [] OTHER -> "false"

\* one pass of the loop of _check_conditions
ConditionOutcome(doc, condition) ==
    _evaluate_condition(FieldValue(doc, condition.field), condition.operator,
                        condition.value)

RECURSIVE CheckFrom(_, _, _)
\* the loop of _check_conditions from condition i on: the result, and the
\* number n of conditions it evaluated
CheckFrom(doc, conditions, i) ==
    IF i > Len(conditions) THEN [res |-> "true", n |-> Len(conditions)]
    ELSE IF ConditionOutcome(doc, conditions[i]) = "true"
    THEN CheckFrom(doc, conditions, i + 1)
    ELSE [res |-> ConditionOutcome(doc, conditions[i]), n |-> i]

RECURSIVE CheckAll(_, _, _)
\* a slip: every condition is evaluated before the results are combined
CheckAll(doc, conditions, i) ==
    IF i > Len(conditions) THEN [res |-> "true", n |-> Len(conditions)]
    ELSE LET rest == CheckAll(doc, conditions, i + 1)
             this == ConditionOutcome(doc, conditions[i])
         IN [res |-> IF "raise" \in {this, rest.res} THEN "raise"
                     ELSE IF "false" \in {this, rest.res} THEN "false" ELSE "true",
             n |-> Len(conditions)]

_check_conditions_NoShortCircuit(doc, conditions) == CheckAll(doc, conditions, 1)

\* WorkflowService._check_conditions
_check_conditions(doc, conditions) == CheckFrom(doc, conditions, 1)

\* params has no "tag" key
NoKey == "<no key>"

\* a slip: the tag is appended whether or not it is there
AddTag_Always(tags, tag) == Append(tags, tag)

\* tags.append(tag) unless tag in tags
AddTag(tags, tag) ==
    IF \E i \in 1..Len(tags) : tags[i] = tag THEN tags ELSE Append(tags, tag)

\* the action types _execute_actions has a branch for
KnownActionTypes == {"tag", "notify", "move", "approve_request"}

\* a slip: an action type without a branch is an error
ActionEffect_RejectsUnknown(doc, action) ==
    IF action.type = "tag" /\ action.tag # NoKey
    THEN [doc |-> [doc EXCEPT !.tags = AddTag(doc.tags, action.tag)], raised |-> FALSE]
    ELSE [doc |-> doc, raised |-> action.type \notin (KnownActionTypes \ {"tag"})]

\* one pass of the loop of _execute_actions: the document as the action leaves
\* it, and whether it raised
ActionEffect(doc, action) ==
    IF action.type = "tag"
    THEN IF action.tag = NoKey
         \* params["tag"]: KeyError
         THEN [doc |-> doc, raised |-> TRUE]
         ELSE [doc |-> [doc EXCEPT !.tags = AddTag(doc.tags, action.tag)],
               raised |-> FALSE]
    \* notify, move and approve_request only log; no branch takes any other type
    ELSE [doc |-> doc, raised |-> FALSE]

RECURSIVE ExecuteFrom(_, _, _)
\* the loop of _execute_actions from action i on: the document as the loop
\* leaves it, whether it raised, and the number n of actions it started
ExecuteFrom(doc, actions, i) ==
    IF i > Len(actions) THEN [doc |-> doc, raised |-> FALSE, n |-> Len(actions)]
    ELSE IF ActionEffect(doc, actions[i]).raised
    THEN [doc |-> doc, raised |-> TRUE, n |-> i]
    ELSE ExecuteFrom(ActionEffect(doc, actions[i]).doc, actions, i + 1)

\* WorkflowService._execute_actions
_execute_actions(doc, actions) == ExecuteFrom(doc, actions, 1)

\* a slip: inactive rules are evaluated too
IsSkipped_Never(workflow) == FALSE

\* if not workflow["is_active"]: continue
IsSkipped(workflow) == ~workflow.is_active

RECURSIVE EvaluateFrom(_, _, _, _, _, _)
\* the loop of evaluate from rule i on.  triggered holds the ids of the rules
\* appended to the result; checked[i] and acted[i] are the numbers of conditions
\* evaluated and of actions started for rule i.
EvaluateFrom(wfs, i, doc, triggered, checked, acted) ==
    IF i > Len(wfs)
    THEN [state |-> "returned", workflows |-> wfs, doc |-> doc,
          triggered |-> triggered, checked |-> checked, acted |-> acted]
    ELSE IF IsSkipped(wfs[i])
    THEN EvaluateFrom(wfs, i + 1, doc, triggered, checked, acted)
    ELSE LET c == _check_conditions(doc, wfs[i].conditions)
             a == _execute_actions(doc, wfs[i].actions)
             checked1 == [checked EXCEPT ![i] = c.n]
             acted1 == [acted EXCEPT ![i] = a.n]
         IN IF c.res = "raise"
            THEN [state |-> "raised", workflows |-> wfs, doc |-> doc,
                  triggered |-> <<>>, checked |-> checked1, acted |-> acted]
            ELSE IF c.res = "false"
            THEN EvaluateFrom(wfs, i + 1, doc, triggered, checked1, acted)
            ELSE IF a.raised
            THEN [state |-> "raised", workflows |-> wfs, doc |-> a.doc,
                  triggered |-> <<>>, checked |-> checked1, acted |-> acted1]
            ELSE EvaluateFrom(
                     [wfs EXCEPT ![i].trigger_count = wfs[i].trigger_count + 1],
                     i + 1, a.doc, Append(triggered, wfs[i].id), checked1, acted1)

\* WorkflowService.evaluate(document)
evaluate(wfs, doc) ==
    EvaluateFrom(wfs, 1, doc, <<>>, [i \in 1..Len(wfs) |-> 0], [i \in 1..Len(wfs) |-> 0])

----------------------------------------------------------------------------
(* The rules and the documents of the model *)

Condition(f, o, v) == [field |-> f, operator |-> o, value |-> v]

TagAction(tag) == [type |-> "tag", tag |-> tag]

OtherAction(type) == [type |-> type, tag |-> NoKey]

\* the rule of the example: invoices over 10000 are tagged "high-value"
HighValueRule ==
    [conditions |-> <<Condition("classification", "equals", PyStr("invoice")),
                      Condition("entity_MONEY", "greater_than", PyNum(10000))>>,
     actions |-> <<TagAction("high-value")>>]

RuleKinds ==
    {HighValueRule,
     \* one condition
     [conditions |-> <<Condition("classification", "equals", PyStr("invoice"))>>,
      actions |-> <<TagAction("high-value")>>],
     \* two conditions that a large invoice meets
     [conditions |-> <<Condition("classification", "contains", PyStr("INV")),
                       Condition("file_size", "greater_than", PyNum(1000))>>,
      actions |-> <<TagAction("urgent"), OtherAction("notify")>>],
     \* a condition that only a letter meets, then one that cannot be evaluated
     [conditions |-> <<Condition("classification", "equals", PyStr("letter")),
                       Condition("file_size", "greater_than", PyStr("abc"))>>,
      actions |-> <<TagAction("urgent")>>]}

\* the document of the example
InvoiceDocument ==
    [classification |-> PyStr("invoice"), file_size |-> PyNum(2048),
     mime_type |-> PyStr("application/pdf"),
     entities |-> <<[type |-> "MONEY", value |-> "15000"]>>, tags |-> <<>>]

Documents ==
    {InvoiceDocument,
     [classification |-> PyStr("letter"), file_size |-> PyNum(2048),
      mime_type |-> PyStr("text/plain"), entities |-> <<>>, tags |-> <<"urgent">>],
     \* a document whose processing has not finished (DocumentService.create)
     [classification |-> PyNone, file_size |-> PyNum(0),
      mime_type |-> PyStr("text/plain"), entities |-> <<>>, tags |-> <<>>]}

NoRet == [state |-> "none"]

RulesInit ==
    /\ mime_type = "text/plain" /\ content = [text |-> <<>>, has_layer |-> TRUE]
    /\ p_env = NoEnv /\ p_state = "ready" /\ p_result = NoResult /\ p_calls = <<>>
    /\ _workflows = <<>>
    /\ next_id = 0
    /\ document \in Documents
    /\ op = "none"
    /\ ret = NoRet
    /\ UnusedTasks
    /\ UnusedSearch

\* the index of rule id in the store
IndexOf(wfs, id) == CHOOSE i \in 1..Len(wfs) : wfs[i].id = id

Ids(wfs) == {wfs[i].id : i \in 1..Len(wfs)}

\* WorkflowService.create
create(wfs, id, kind, is_active) ==
    Append(wfs, [id |-> id, conditions |-> kind.conditions, actions |-> kind.actions,
                 is_active |-> is_active, trigger_count |-> 0])

\* a slip: an edit starts the count again, as create does
update_ResetsCount(wfs, id, kind, is_active) ==
    [wfs EXCEPT ![IndexOf(wfs, id)] =
        [@ EXCEPT !.conditions = kind.conditions, !.actions = kind.actions,
                  !.is_active = is_active, !.trigger_count = 0]]

\* WorkflowService.update with conditions, actions and is_active given
update(wfs, id, kind, is_active) ==
    [wfs EXCEPT ![IndexOf(wfs, id)] =
        [@ EXCEPT !.conditions = kind.conditions, !.actions = kind.actions,
                  !.is_active = is_active]]

\* toggle_workflow: update(workflow_id, is_active=not workflow["is_active"])
toggle(wfs, id) ==
    [wfs EXCEPT ![IndexOf(wfs, id)] = [@ EXCEPT !.is_active = ~@]]

\* WorkflowService.delete
delete(wfs, id) == SelectSeq(wfs, LAMBDA w : w.id # id)

CreateWorkflow ==
    /\ next_id < MaxRules
    /\ \E kind \in RuleKinds, is_active \in BOOLEAN :
          _workflows' = create(_workflows, next_id + 1, kind, is_active)
    /\ next_id' = next_id + 1
    /\ op' = "create"
    /\ ret' = NoRet
    /\ UNCHANGED <<document, pipeline_vars, task_vars, search_vars>>

UpdateWorkflow ==
    /\ \E id \in Ids(_workflows), kind \in RuleKinds, is_active \in BOOLEAN :
          _workflows' = update(_workflows, id, kind, is_active)
    /\ op' = "update"
    /\ ret' = NoRet
    /\ UNCHANGED <<next_id, document, pipeline_vars, task_vars, search_vars>>

ToggleWorkflow ==
    /\ \E id \in Ids(_workflows) : _workflows' = toggle(_workflows, id)
    /\ op' = "toggle"
    /\ ret' = NoRet
    /\ UNCHANGED <<next_id, document, pipeline_vars, task_vars, search_vars>>

DeleteWorkflow ==
    /\ \E id \in Ids(_workflows) : _workflows' = delete(_workflows, id)
    /\ op' = "delete"
    /\ ret' = NoRet
    /\ UNCHANGED <<next_id, document, pipeline_vars, task_vars, search_vars>>

Evaluate ==
    /\ \A i \in 1..Len(_workflows) : _workflows[i].trigger_count < MaxTriggers
    /\ LET out == evaluate(_workflows, document)
       IN /\ _workflows' = out.workflows
          /\ document' = out.doc
          /\ ret' = [state |-> out.state, triggered |-> out.triggered,
                     checked |-> out.checked, acted |-> out.acted]
    /\ op' = "evaluate"
    /\ UNCHANGED <<next_id, pipeline_vars, task_vars, search_vars>>

RulesNext ==
    \/ CreateWorkflow
    \/ UpdateWorkflow
    \/ ToggleWorkflow
    \/ DeleteWorkflow
    \/ Evaluate

SpecRules == RulesInit /\ [][RulesNext]_vars

----------------------------------------------------------------------------
(* evaluate on a store of rules with malformed, unknown and tag-reading parts *)

\* the condition every invoice meets
IsInvoice == Condition("classification", "equals", PyStr("invoice"))

EngineKinds ==
    {HighValueRule,
     [conditions |-> <<IsInvoice>>, actions |-> <<TagAction("high-value")>>],
     \* a tag action whose params lack "tag"
     [conditions |-> <<IsInvoice>>, actions |-> <<TagAction(NoKey)>>],
     \* the same after a tag action that is well formed
     [conditions |-> <<IsInvoice>>,
      actions |-> <<TagAction("urgent"), TagAction(NoKey)>>],
     \* an action type without a branch, between two tag actions
     [conditions |-> <<IsInvoice>>,
      actions |-> <<TagAction("urgent"), OtherAction("archive"),
                    TagAction("high-value")>>],
     \* a condition on the tags, through the generic lookup
     [conditions |-> <<Condition("tags", "contains", PyStr("high-value"))>>,
      actions |-> <<TagAction("reviewed")>>]}

EngineDocuments ==
    {InvoiceDocument,
     [InvoiceDocument EXCEPT !.tags = <<"urgent">>],
     [classification |-> PyStr("letter"), file_size |-> PyNum(2048),
      mime_type |-> PyStr("text/plain"), entities |-> <<>>, tags |-> <<>>]}

\* the stores that n calls of create leave
StoresOf(kinds, n) ==
    {[i \in 1..n |-> [id |-> i, conditions |-> k[i].conditions,
                      actions |-> k[i].actions, is_active |-> a[i],
                      trigger_count |-> 0]] :
        k \in [1..n -> kinds], a \in [1..n -> BOOLEAN]}

EngineInit ==
    /\ mime_type = "text/plain" /\ content = [text |-> <<>>, has_layer |-> TRUE]
    /\ p_env = NoEnv /\ p_state = "ready" /\ p_result = NoResult /\ p_calls = <<>>
    /\ \E n \in 1..MaxRules :
          /\ _workflows \in StoresOf(EngineKinds, n)
          /\ next_id = n
    /\ document \in EngineDocuments
    /\ op = "none"
    /\ ret = NoRet
    /\ UnusedTasks
    /\ UnusedSearch

EngineNext == Evaluate

SpecEngine == EngineInit /\ [][EngineNext]_vars

----------------------------------------------------------------------------
(* evaluate on one rule of one condition: _evaluate_condition on every *)
(* operator, kind of field and kind of value                             *)

ConditionFields == {"classification", "file_size", "mime_type", "entity_MONEY",
                    "department"}

\* "matches" is an operator without a branch
ConditionOperators == {"equals", "not_equals", "contains", "greater_than",
                       "less_than", "in", "matches"}

ConditionValues ==
    {PyStr("invoice"), PyStr("abc"), PyNum(1000),
     PyList(<<PyStr("invoice"), PyNum(2048)>>)}

ConditionDocuments ==
    {InvoiceDocument,
     \* classification not decided yet
     [InvoiceDocument EXCEPT !.classification = PyNone],
     \* a dict without the three keys
     [InvoiceDocument EXCEPT !.classification = Absent, !.file_size = Absent,
                             !.mime_type = Absent]}

ConditionInit ==
    /\ mime_type = "text/plain" /\ content = [text |-> <<>>, has_layer |-> TRUE]
    /\ p_env = NoEnv /\ p_state = "ready" /\ p_result = NoResult /\ p_calls = <<>>
    /\ \E f \in ConditionFields, o \in ConditionOperators, v \in ConditionValues :
          _workflows = <<[id |-> 1, conditions |-> <<Condition(f, o, v)>>,
                          actions |-> <<TagAction("matched")>>,
                          is_active |-> TRUE, trigger_count |-> 0]>>
    /\ next_id = 1
    /\ document \in ConditionDocuments
    /\ op = "none"
    /\ ret = NoRet
    /\ UnusedTasks
    /\ UnusedSearch

ConditionNext == Evaluate

SpecCondition == ConditionInit /\ [][ConditionNext]_vars

----------------------------------------------------------------------------
(* Calls of the rule engine in flight at once.  Every method of the service *)
(* is a coroutine; the calls are tasks of one event loop, which runs a task *)
(* until it awaits something that suspends.  A call is modelled statement   *)
(* by statement; tasks[t] holds its arguments, its position pc and its      *)
(* locals, and running is the task that holds the loop.                     *)

\* the most calls in flight at once
MaxTasks == 2

\* a slip: the calls are run by threads, which can be pre-empted after any
\* statement
YieldsAfter_EveryStatement(stmt) == TRUE

\* whether the event loop can run another task after statement stmt of a call
\* that has not finished.  Only an await that suspends hands the loop over:
\* the one await of evaluate (line 114) is of _execute_actions, whose body has
\* no await, and create, update and delete have none.
YieldsAfter(stmt) == FALSE

\* two versions of a rule that differ in their conditions and in their actions
ConcurrentKinds ==
    <<[conditions |-> <<IsInvoice>>, actions |-> <<TagAction("high-value")>>],
      [conditions |-> <<Condition("file_size", "greater_than", PyNum(1000))>>,
       actions |-> <<TagAction("urgent")>>]>>

\* two documents: both are invoices, the first one is the larger
ConcurrentDocuments ==
    <<InvoiceDocument, [InvoiceDocument EXCEPT !.file_size = PyNum(0)]>>

\* the index of rule id in the store, 0 when the store does not hold it
Lookup(wfs, id) ==
    IF id \in Ids(wfs) THEN IndexOf(wfs, id) ELSE 0

\* the locals of a call of evaluate before its first statement
EvaluateCall(doc) ==
    [kind |-> "evaluate", pc |-> "iterate", doc |-> doc, pos |-> 0, size |-> 0,
     cur |-> 0, conditions |-> <<>>, count |-> 0, used |-> <<>>,
     triggered |-> <<>>]

UpdateCall(id, rule) ==
    [kind |-> "update", pc |-> "conditions", id |-> id, rule |-> rule]

ToggleCall(id) == [kind |-> "toggle", pc |-> "get", id |-> id, is_active |-> FALSE]

DeleteCall(id) == [kind |-> "delete", pc |-> "delete", id |-> id]

CreateCall(rule) == [kind |-> "create", pc |-> "create", rule |-> rule]

Finished(task) == task.pc \in {"done", "raised"}

\* one statement of evaluate: the call and the store as the statement leaves
\* them
EvaluateStatement(task, wfs) ==
    LET at == Lookup(wfs, task.cur)
    IN CASE task.pc = "iterate" ->
            \* lines 106-108: the next value of _workflows.values()
            LET size == IF task.pos = 0 THEN Len(wfs) ELSE task.size
                pos == IF task.pos = 0 THEN 1 ELSE task.pos
            IN IF Len(wfs) # size
               \* RuntimeError: dictionary changed size during iteration
               THEN [task |-> [task EXCEPT !.pc = "raised"], wfs |-> wfs]
               ELSE IF pos > Len(wfs)
               THEN [task |-> [task EXCEPT !.pc = "done", !.pos = pos, !.size = size],
                     wfs |-> wfs]
               ELSE IF ~wfs[pos].is_active
               THEN [task |-> [task EXCEPT !.pos = pos + 1, !.size = size],
                     wfs |-> wfs]
               ELSE [task |-> [task EXCEPT !.pc = "check", !.pos = pos, !.size = size,
                                           !.cur = wfs[pos].id],
                     wfs |-> wfs]
         [] task.pc = "check" ->
            \* line 110: workflow["conditions"] is read and checked
            IF at = 0 THEN [task |-> [task EXCEPT !.pc = "raised"], wfs |-> wfs]
            ELSE LET c == _check_conditions(task.doc, wfs[at].conditions)
                 IN IF c.res = "raise"
                    THEN [task |-> [task EXCEPT !.pc = "raised"], wfs |-> wfs]
                    ELSE IF c.res = "false"
                    THEN [task |-> [task EXCEPT !.pc = "iterate", !.pos = @ + 1],
                          wfs |-> wfs]
                    ELSE [task |-> [task EXCEPT !.pc = "execute",
                                                !.conditions = wfs[at].conditions],
                          wfs |-> wfs]
         [] task.pc = "execute" ->
            \* line 114: workflow["actions"] is read and executed
            IF at = 0 THEN [task |-> [task EXCEPT !.pc = "raised"], wfs |-> wfs]
            ELSE LET a == _execute_actions(task.doc, wfs[at].actions)
                 IN [task |-> [task EXCEPT
                                 !.pc = IF a.raised THEN "raised" ELSE "load",
                                 !.doc = a.doc,
                                 !.used = Append(@, [conditions |-> task.conditions,
                                                     actions |-> wfs[at].actions])],
                     wfs |-> wfs]
         [] task.pc = "load" ->
            \* line 117, the read of workflow["trigger_count"]
            IF at = 0 THEN [task |-> [task EXCEPT !.pc = "raised"], wfs |-> wfs]
            ELSE [task |-> [task EXCEPT !.pc = "store",
                                        !.count = wfs[at].trigger_count],
                  wfs |-> wfs]
         [] task.pc = "store" ->
            \* line 117, the write, and line 119
            IF at = 0 THEN [task |-> [task EXCEPT !.pc = "raised"], wfs |-> wfs]
            ELSE [task |-> [task EXCEPT !.pc = "iterate", !.pos = @ + 1,
                                        !.triggered = Append(@, task.cur)],
                  wfs |-> [wfs EXCEPT ![at].trigger_count = task.count + 1]]

\* one statement of update(workflow_id, conditions, actions, is_active); once
\* bound, workflow is the rule's dict, in the store or not
UpdateStatement(task, wfs) ==
    LET at == Lookup(wfs, task.id)
    IN CASE task.pc = "conditions" ->
            \* lines 75-84
            IF at = 0 THEN [task |-> [task EXCEPT !.pc = "raised"], wfs |-> wfs]
            ELSE [task |-> [task EXCEPT !.pc = "actions"],
                  wfs |-> [wfs EXCEPT ![at].conditions = task.rule.conditions]]
         [] task.pc = "actions" ->
            \* line 86
            [task |-> [task EXCEPT !.pc = "is_active"],
             wfs |-> IF at = 0 THEN wfs
                     ELSE [wfs EXCEPT ![at].actions = task.rule.actions]]
         [] task.pc = "is_active" ->
            \* line 88
            [task |-> [task EXCEPT !.pc = "done"],
             wfs |-> IF at = 0 THEN wfs ELSE [wfs EXCEPT ![at].is_active = TRUE]]

\* one statement of toggle_workflow
ToggleStatement(task, wfs) ==
    LET at == Lookup(wfs, task.id)
    IN IF at = 0
       \* 404, or "Workflow not found"
       THEN [task |-> [task EXCEPT !.pc = "raised"], wfs |-> wfs]
       ELSE CASE task.pc = "get" ->
                 \* workflows.py, lines 204-207
                 [task |-> [task EXCEPT !.pc = "update",
                                        !.is_active = wfs[at].is_active],
                  wfs |-> wfs]
              [] task.pc = "update" ->
                 \* workflows.py, line 209: update(is_active=not workflow["is_active"])
                 [task |-> [task EXCEPT !.pc = "done"],
                  wfs |-> [wfs EXCEPT ![at].is_active = ~task.is_active]]

\* delete(workflow_id), one statement (lines 94-97)
DeleteStatement(task, wfs) ==
    [task |-> [task EXCEPT !.pc = "done"], wfs |-> delete(wfs, task.id)]

\* create(...), one statement (lines 34-49)
CreateStatement(task, wfs, id) ==
    [task |-> [task EXCEPT !.pc = "done"], wfs |-> create(wfs, id, task.rule, TRUE)]

\* the calls that can be made on a store of n rules, in a fixed order
Requests(n) ==
    [d \in 1..Len(ConcurrentDocuments) |-> EvaluateCall(ConcurrentDocuments[d])]
    \o [i \in 1..n |-> ToggleCall(i)]
    \o [i \in 1..n |-> DeleteCall(i)]
    \o [j \in 1..(2 * n) |->
           UpdateCall(((j - 1) \div 2) + 1, ConcurrentKinds[((j - 1) % 2) + 1])]
    \o [k \in 1..Len(ConcurrentKinds) |-> CreateCall(ConcurrentKinds[k])]

\* k calls in flight; two orders of the same calls are one case
TasksOf(n, k) ==
    {[t \in 1..k |-> Requests(n)[f[t]]] :
        f \in {g \in [1..k -> 1..Len(Requests(n))] :
                  \A t \in 1..(k - 1) : g[t] <= g[t + 1]}}

ConcurrentInit ==
    /\ mime_type = "text/plain" /\ content = [text |-> <<>>, has_layer |-> TRUE]
    /\ p_env = NoEnv /\ p_state = "ready" /\ p_result = NoResult /\ p_calls = <<>>
    /\ document = [tags |-> <<>>] /\ op = "none" /\ ret = NoRet
    /\ \E n \in 1..MaxRules :
          \* every rule starts active; a toggle call turns one off
          /\ _workflows \in
                {w \in StoresOf({ConcurrentKinds[k] : k \in 1..Len(ConcurrentKinds)}, n) :
                    \A i \in 1..n : w[i].is_active}
          /\ next_id = n
          /\ \E k \in 1..MaxTasks : tasks \in TasksOf(n, k)
    /\ running = 0
    /\ UnusedSearch

\* task t may run its next statement
Runnable(t, kind) ==
    /\ tasks[t].kind = kind
    /\ ~Finished(tasks[t])
    /\ running \in {0, t}

\* the statement of task t has left the call as task and the store as wfs
Ran(t, out) ==
    /\ tasks' = [tasks EXCEPT ![t] = out.task]
    /\ _workflows' = out.wfs
    /\ running' = IF Finished(out.task) \/ YieldsAfter(tasks[t].pc) THEN 0 ELSE t
    /\ op' = tasks[t].kind
    /\ UNCHANGED <<document, ret, pipeline_vars, search_vars>>

EvaluateTask ==
    \E t \in 1..Len(tasks) :
        /\ Runnable(t, "evaluate")
        /\ Ran(t, EvaluateStatement(tasks[t], _workflows))
        /\ UNCHANGED next_id

UpdateTask ==
    \E t \in 1..Len(tasks) :
        /\ Runnable(t, "update")
        /\ Ran(t, UpdateStatement(tasks[t], _workflows))
        /\ UNCHANGED next_id

ToggleTask ==
    \E t \in 1..Len(tasks) :
        /\ Runnable(t, "toggle")
        /\ Ran(t, ToggleStatement(tasks[t], _workflows))
        /\ UNCHANGED next_id

DeleteTask ==
    \E t \in 1..Len(tasks) :
        /\ Runnable(t, "delete")
        /\ Ran(t, DeleteStatement(tasks[t], _workflows))
        /\ UNCHANGED next_id

CreateTask ==
    \E t \in 1..Len(tasks) :
        /\ Runnable(t, "create")
        /\ Ran(t, CreateStatement(tasks[t], _workflows, next_id + 1))
        /\ next_id' = next_id + 1

ConcurrentNext ==
    \/ EvaluateTask
    \/ UpdateTask
    \/ ToggleTask
    \/ DeleteTask
    \/ CreateTask

SpecConcurrent == ConcurrentInit /\ [][ConcurrentNext]_vars

----------------------------------------------------------------------------
(* services/search_service.py.  A str of the search model is a sequence of *)
(* characters; a timestamp is a sequence of digits.  A score is an integer  *)
(* number of tenths.                                                        *)

\* the most documents in the store
MaxDocs == 2

\* tenths in 1.0
ScoreUnit == 10

CharLower(c) == IF c = "A" THEN "a" ELSE IF c = "B" THEN "b" ELSE c

\* s.lower()
SLower(str) == [i \in 1..Len(str) |-> CharLower(str[i])]

\* the 0-based offsets at which sub occurs in str
Offsets(sub, str) ==
    {i \in 0..(Len(str) - Len(sub)) : SubSeq(str, i + 1, i + Len(sub)) = sub}

\* sub in str
SIn(sub, str) == Offsets(sub, str) # {}

\* str.find(sub)
SFind(sub, str) ==
    IF SIn(sub, str)
    THEN CHOOSE i \in Offsets(sub, str) : \A j \in Offsets(sub, str) : i <= j
    ELSE -1

Max2(a, b) == IF a > b THEN a ELSE b

Min2(a, b) == IF a < b THEN a ELSE b

\* seq[start:end]
PySlice(seq, start, end) ==
    LET n == Len(seq)
        lo == IF start < 0 THEN Max2(n + start, 0) ELSE Min2(start, n)
        hi == IF end < 0 THEN Max2(n + end, 0) ELSE Min2(end, n)
    IN SubSeq(seq, lo + 1, hi)

RECURSIVE SLess(_, _)
\* a < b, for two strs of digits
SLess(a, b) ==
    IF b = <<>> THEN FALSE
    ELSE IF a = <<>> THEN TRUE
    ELSE IF a[1] # b[1] THEN a[1] < b[1]
    ELSE SLess(Tail(a), Tail(b))

\* bool(x), for an Optional[str] argument
Truthy(x) == x.t # "none" /\ x.v # <<>>

\* bool(x), for an Optional[str] argument that names a type
TruthyName(x) == x.t # "none" /\ x.v # ""

\* doc.get("extracted_text") or ""
TextOrEmpty(doc) == IF Truthy(doc.extracted_text) THEN doc.extracted_text.v ELSE <<>>

\* what one pass of the loop over the entities adds to the score (lines
\* 72-78)
EntityBonus(entity, args) ==
    (IF SIn(SLower(args.query), SLower(entity.value)) THEN 15 ELSE 0)
    + (IF /\ TruthyName(args.entity_type)
          /\ entity.type = args.entity_type.v
          /\ Truthy(args.entity_value)
          /\ SIn(SLower(args.entity_value.v), SLower(entity.value))
       THEN 5 ELSE 0)

RECURSIVE EntitiesScore(_, _)
\* the loop over the entities of a document
EntitiesScore(entities, args) ==
    IF entities = <<>> THEN 0
    ELSE EntityBonus(Head(entities), args) + EntitiesScore(Tail(entities), args)

\* _entities.get(doc_id, [])
EntitiesOf(ents, doc_id) == IF doc_id \in DOMAIN ents THEN ents[doc_id] ELSE <<>>

\* a slip: the date range excludes its two ends
Skipped_ExclusiveRange(doc, args) ==
    \/ doc.user_id # args.user_id
    \/ TruthyName(args.classification) /\ ~PyEq(doc.classification, args.classification)
    \/ Truthy(args.date_from) /\ ~SLess(args.date_from.v, doc.created_at)
    \/ Truthy(args.date_to) /\ ~SLess(doc.created_at, args.date_to.v)

\* the filters of lines 37-48: the document is skipped
Skipped(doc, args) ==
    \/ doc.user_id # args.user_id
    \/ TruthyName(args.classification) /\ ~PyEq(doc.classification, args.classification)
    \/ Truthy(args.date_from) /\ SLess(doc.created_at, args.date_from.v)
    \/ Truthy(args.date_to) /\ SLess(args.date_to.v, doc.created_at)

\* score of lines 51-78
Score(doc, entities, args) ==
    (IF SIn(SLower(args.query), SLower(doc.filename)) THEN 20 ELSE 0)
    + (IF SIn(SLower(args.query), SLower(TextOrEmpty(doc))) THEN 10 ELSE 0)
    + EntitiesScore(entities, args)

\* snippet of lines 52-67, and of line 86
Snippet(doc, args) ==
    LET q == SLower(args.query)
        text == TextOrEmpty(doc)
        idx == SFind(q, SLower(text))
    IN IF SIn(q, SLower(text))
       THEN <<".", ".", ".">>
            \o PySlice(text, Max2(0, idx - 50), Min2(Len(text), idx + Len(q) + 50))
            \o <<".", ".", ".">>
       ELSE doc.filename

RECURSIVE Matches(_, _, _)
\* the loop over _documents (lines 35-89): the results in store order
Matches(docs, ents, args) ==
    IF docs = <<>> THEN <<>>
    ELSE LET doc == Head(docs)
             score == Score(doc, EntitiesOf(ents, doc.id), args)
             rest == Matches(Tail(docs), ents, args)
         IN IF Skipped(doc, args) \/ score <= 0 THEN rest
            ELSE <<[id |-> doc.id, filename |-> doc.filename,
                    classification |-> doc.classification,
                    snippet |-> Snippet(doc, args), score |-> score,
                    created_at |-> doc.created_at]>> \o rest

RECURSIVE InsertByScore(_, _)
\* r put into the sorted list after every result of a score not below its own
InsertByScore(r, sorted) ==
    IF sorted = <<>> THEN <<r>>
    ELSE IF Head(sorted).score >= r.score
    THEN <<Head(sorted)>> \o InsertByScore(r, Tail(sorted))
    ELSE <<r>> \o sorted

\* a slip: the results are left in store order
SortByScore_StoreOrder(results) == results

RECURSIVE SortByScore(_)
\* results.sort(key=score, reverse=True): descending, equal scores in their
\* first order
SortByScore(results) ==
    IF results = <<>> THEN <<>>
    ELSE InsertByScore(results[Len(results)],
                       SortByScore(SubSeq(results, 1, Len(results) - 1)))

\* a slip: the first page starts at offset page_size
search_OffsetByPage(docs, ents, args) ==
    LET ranked == SortByScore(Matches(docs, ents, args))
        start == args.page * args.page_size
    IN [results |-> PySlice(ranked, start, start + args.page_size),
        total |-> Len(ranked), ranked |-> ranked]

\* SearchService.search: the page, the total, and the ranked list they come
\* from
search(docs, ents, args) ==
    LET ranked == SortByScore(Matches(docs, ents, args))
        start == (args.page - 1) * args.page_size
    IN [results |-> PySlice(ranked, start, start + args.page_size),
        total |-> Len(ranked), ranked |-> ranked]

\* the documents of the search model, each with its entities
SearchKinds ==
    {\* the query "ab" is in the filename, in the text and in both entities
     [user_id |-> "A", filename |-> <<"A", "b">>,
      extracted_text |-> PyStr(<<"b", "a", "b">>),
      classification |-> PyStr("invoice"), created_at |-> <<1>>,
      entities |-> <<[type |-> "MONEY", value |-> <<"a", "b">>],
                     [type |-> "ORG", value |-> <<"A", "b">>]>>],
     \* no text yet; two entities of one type
     [user_id |-> "A", filename |-> <<"c">>, extracted_text |-> PyNone,
      classification |-> PyNone, created_at |-> <<1, 5>>,
      entities |-> <<[type |-> "MONEY", value |-> <<"a", "b">>],
                     [type |-> "MONEY", value |-> <<"a">>]>>],
     \* no entity
     [user_id |-> "A", filename |-> <<"b">>, extracted_text |-> PyStr(<<"c">>),
      classification |-> PyStr("letter"), created_at |-> <<2>>,
      entities |-> <<>>],
     \* one entity, and the text ""
     [user_id |-> "A", filename |-> <<"b">>, extracted_text |-> PyStr(<<>>),
      classification |-> PyStr("invoice"), created_at |-> <<1, 5>>,
      entities |-> <<[type |-> "ORG", value |-> <<"c">>]>>],
     \* another owner's
     [user_id |-> "B", filename |-> <<"A", "b">>,
      extracted_text |-> PyStr(<<"a", "b">>),
      classification |-> PyStr("invoice"), created_at |-> <<1>>,
      entities |-> <<[type |-> "MONEY", value |-> <<"a", "b">>]>>]}

\* the arguments of a search call
SearchArgs ==
    [user_id : {"A", "B"},
     query : {<<"a">>, <<"A", "b">>, <<"c">>},
     classification : {PyNone, PyStr("invoice")},
     entity_type : {PyNone, PyStr("MONEY")},
     entity_value : {PyNone, PyStr(<<"A">>)},
     date_from : {PyNone, PyStr(<<1, 5>>)},
     date_to : {PyNone, PyStr(<<1, 5>>)},
     page : {1, 2},
     page_size : {1, 2}]

\* the stores that n uploads leave: document i has id i
SearchInit ==
    /\ mime_type = "text/plain" /\ content = [text |-> <<>>, has_layer |-> TRUE]
    /\ p_env = NoEnv /\ p_state = "ready" /\ p_result = NoResult /\ p_calls = <<>>
    /\ _workflows = <<>> /\ next_id = 0 /\ document = [tags |-> <<>>]
    /\ op = "none" /\ ret = NoRet
    /\ UnusedTasks
    /\ \E n \in 1..MaxDocs : \E k \in [1..n -> SearchKinds] :
          /\ _documents = [i \in 1..n |->
                              [id |-> i, user_id |-> k[i].user_id,
                               filename |-> k[i].filename,
                               extracted_text |-> k[i].extracted_text,
                               classification |-> k[i].classification,
                               created_at |-> k[i].created_at]]
          /\ _entities = [i \in 1..n |-> k[i].entities]
          /\ doc_count = n
    /\ _users = {"A", "B"}
    /\ d_ret = NoCall
    /\ s_args = NoSearch
    /\ s_ret = NoSearch

\* one call of search; it reads the stores only, so one call is followed
Search ==
    /\ s_ret = NoSearch
    /\ \E args \in SearchArgs :
          /\ s_args' = args
          /\ s_ret' = search(_documents, _entities, args)
    /\ UNCHANGED <<_documents, _entities, _users, doc_count, d_ret>>
    /\ UNCHANGED <<pipeline_vars, rule_vars, task_vars>>

SearchNext == Search

SpecSearch == SearchInit /\ [][SearchNext]_vars

----------------------------------------------------------------------------
(* Pages of search results: a store of many documents that match one query. *)

\* the most documents that match the query
MaxMatches == 25

\* the documents of the paging model: the query "a" is in the filename of the
\* first and in the text of the second, and nowhere in the third
PageKinds ==
    <<[user_id |-> "A", filename |-> <<"a">>, extracted_text |-> PyNone,
       classification |-> PyStr("invoice"), created_at |-> <<1>>,
       entities |-> <<>>],
      [user_id |-> "A", filename |-> <<"b">>, extracted_text |-> PyStr(<<"c", "a">>),
       classification |-> PyStr("letter"), created_at |-> <<2>>,
       entities |-> <<>>],
      [user_id |-> "A", filename |-> <<"c">>, extracted_text |-> PyStr(<<"c">>),
       classification |-> PyNone, created_at |-> <<2>>,
       entities |-> <<[type |-> "ORG", value |-> <<"b">>]>>]>>

\* the kind of document i in a store that begins with z documents the query
\* does not match
PageKind(i, z) == IF i <= z THEN PageKinds[3] ELSE PageKinds[(i % 2) + 1]

\* the arguments of a call for one page
PageArgs ==
    [user_id : {"A"}, query : {<<"a">>},
     classification : {PyNone}, entity_type : {PyNone}, entity_value : {PyNone},
     date_from : {PyNone}, date_to : {PyNone},
     page : 1..4,
     page_size : {0, 1, 2, 5, 10}]

\* the stores that n + z uploads leave: document i has id i
PagesInit ==
    /\ mime_type = "text/plain" /\ content = [text |-> <<>>, has_layer |-> TRUE]
    /\ p_env = NoEnv /\ p_state = "ready" /\ p_result = NoResult /\ p_calls = <<>>
    /\ _workflows = <<>> /\ next_id = 0 /\ document = [tags |-> <<>>]
    /\ op = "none" /\ ret = NoRet
    /\ UnusedTasks
    /\ \E n \in 0..MaxMatches : \E z \in 0..1 :
          /\ _documents = [i \in 1..(n + z) |->
                              [id |-> i, user_id |-> PageKind(i, z).user_id,
                               filename |-> PageKind(i, z).filename,
                               extracted_text |-> PageKind(i, z).extracted_text,
                               classification |-> PageKind(i, z).classification,
                               created_at |-> PageKind(i, z).created_at]]
          /\ _entities = [i \in 1..(n + z) |-> PageKind(i, z).entities]
          /\ doc_count = n + z
    /\ _users = {"A"}
    /\ d_ret = NoCall
    /\ s_args = NoSearch
    /\ s_ret = NoSearch

\* one call of search for one page
SearchPage ==
    /\ s_ret = NoSearch
    /\ \E args \in PageArgs :
          /\ s_args' = args
          /\ s_ret' = search(_documents, _entities, args)
    /\ UNCHANGED <<_documents, _entities, _users, doc_count, d_ret>>
    /\ UNCHANGED <<pipeline_vars, rule_vars, task_vars>>

PagesNext == SearchPage

SpecPages == PagesInit /\ [][PagesNext]_vars

----------------------------------------------------------------------------
(* services/document_service.py, AdminService.delete_user and the two other *)
(* queries of services/search_service.py.  doc["entities"], once set by get  *)
(* or update, is the list _entities[id] itself; it is not stored twice.      *)

Users == {"A", "B"}

\* DocumentService.create: the record of a new upload
DocumentService_create(docs, ents, id, user_id, file, now) ==
    [docs |-> Append(docs, [id |-> id, user_id |-> user_id,
                            filename |-> file.filename,
                            file_size |-> file.file_size,
                            mime_type |-> file.mime_type,
                            classification |-> PyNone,
                            confidence_score |-> PyNone,
                            extracted_text |-> PyNone,
                            tags |-> <<>>, status |-> "processing",
                            created_at |-> now]),
     ents |-> [i \in (DOMAIN ents) \cup {id} |-> IF i = id THEN <<>> ELSE ents[i]]]

\* the position of document id in the store, 0 when the store does not hold it
DocIndex(docs, id) ==
    IF \E i \in 1..Len(docs) : docs[i].id = id
    THEN CHOOSE i \in 1..Len(docs) : docs[i].id = id
    ELSE 0

\* an argument of update that was given replaces the field
Given(arg, old) == IF arg.t = "none" THEN old ELSE arg

\* DocumentService.update(document_id, classification, confidence_score,
\* extracted_text, entities, tags, status): [raised, docs, ents]
DocumentService_update(docs, ents, id, u) ==
    LET at == DocIndex(docs, id)
    IN IF at = 0
       \* Exception("Document not found")
       THEN [raised |-> TRUE, docs |-> docs, ents |-> ents]
       ELSE [raised |-> FALSE,
             docs |-> [docs EXCEPT ![at] =
                         [@ EXCEPT !.classification = Given(u.classification, @),
                                   !.confidence_score = Given(u.confidence_score, @),
                                   !.extracted_text = Given(u.extracted_text, @),
                                   !.tags = IF u.tags.t = "none" THEN @ ELSE u.tags.v,
                                   !.status = IF u.status.t = "none" THEN @ ELSE u.status.v]],
             ents |-> IF u.entities.t = "none" THEN ents
                      ELSE [i \in (DOMAIN ents) \cup {id} |->
                               IF i = id THEN u.entities.v ELSE ents[i]]]

\* DocumentService.delete(document_id): [ret, docs, ents]
DocumentService_delete(docs, ents, id) ==
    IF DocIndex(docs, id) = 0
    THEN [ret |-> FALSE, docs |-> docs, ents |-> ents]
    ELSE [ret |-> TRUE, docs |-> SelectSeq(docs, LAMBDA d : d.id # id),
          ents |-> [i \in (DOMAIN ents) \ {id} |-> ents[i]]]

\* AdminService.delete_user(user_id): [ret, users, docs]; _entities is not
\* imported by admin_service.py
delete_user(users, docs, user_id) ==
    IF user_id \notin users
    THEN [ret |-> FALSE, users |-> users, docs |-> docs]
    ELSE [ret |-> TRUE, users |-> users \ {user_id},
          docs |-> SelectSeq(docs, LAMBDA d : d.user_id # user_id)]

\* ord(c)
CharCode(c) ==
    CASE c = "." -> 46 [] c = "A" -> 65 [] c = "B" -> 66
      [] c = "a" -> 97 [] c = "b" -> 98 [] c = "c" -> 99

RECURSIVE StrLess(_, _)
\* a < b, for two strs
StrLess(a, b) ==
    IF b = <<>> THEN FALSE
    ELSE IF a = <<>> THEN TRUE
    ELSE IF a[1] # b[1] THEN CharCode(a[1]) < CharCode(b[1])
    ELSE StrLess(Tail(a), Tail(b))

RECURSIVE SortedStrs(_)
\* sorted(S), for a set of strs
SortedStrs(S) ==
    IF S = {} THEN <<>>
    ELSE LET m == CHOOSE x \in S : \A y \in S : x = y \/ StrLess(x, y)
         IN <<m>> \o SortedStrs(S \ {m})

\* the classification and entity type names, in the order sorted() gives them
NameOrder == <<"DATE", "MONEY", "ORG", "contract", "invoice", "letter", "other">>

\* sorted(S), for a set of names
SortedNames(S) == SelectSeq(NameOrder, LAMBDA n : n \in S)

\* a slip: the documents of every owner are read
UserDocs_All(docs, user_id) == docs

\* [d for d in _documents.values() if d["user_id"] == user_id]
UserDocs(docs, user_id) == SelectSeq(docs, LAMBDA d : d.user_id = user_id)

\* SearchService.suggest(user_id, partial_query, limit)
suggest(docs, ents, user_id, partial_query, limit) ==
    LET q == SLower(partial_query)
        user_docs == UserDocs(docs, user_id)
        names == {user_docs[i].filename : i \in {j \in 1..Len(user_docs) :
                                             SIn(q, SLower(user_docs[j].filename))}}
        values == UNION {{EntitiesOf(ents, user_docs[i].id)[k].value :
                            k \in {e \in 1..Len(EntitiesOf(ents, user_docs[i].id)) :
                                     SIn(q, SLower(EntitiesOf(ents, user_docs[i].id)[e].value))}} :
                         i \in 1..Len(user_docs)}
    IN PySlice(SortedStrs(names \cup values), 0, limit)

\* the least and the greatest of a non-empty set of timestamps
MinDate(S) == CHOOSE x \in S : \A y \in S : ~SLess(y, x)

MaxDate(S) == CHOOSE x \in S : \A y \in S : ~SLess(x, y)

\* SearchService.get_filter_options(user_id)
get_filter_options(docs, ents, user_id) ==
    LET user_docs == UserDocs(docs, user_id)
        classifications == {user_docs[i].classification.v :
                               i \in {j \in 1..Len(user_docs) :
                                        TruthyName(user_docs[j].classification)}}
        entity_types == UNION {{EntitiesOf(ents, user_docs[i].id)[k].type :
                                   k \in 1..Len(EntitiesOf(ents, user_docs[i].id))} :
                               i \in 1..Len(user_docs)}
        dates == {user_docs[i].created_at : i \in 1..Len(user_docs)}
    IN [classifications |-> SortedNames(classifications),
        entity_types |-> SortedNames(entity_types),
        date_range |-> IF dates = {} THEN [min |-> PyNone, max |-> PyNone]
                       ELSE [min |-> PyStr(MinDate(dates)), max |-> PyStr(MaxDate(dates))]]

----------------------------------------------------------------------------
(* The document store under create, update, delete and delete_user, and the *)
(* three queries on it.                                                      *)

\* the uploads of the store model, each with what processing finds in it;
\* the third is another owner's and matches every query the first matches
StoreKinds ==
    {[user_id |-> "A", filename |-> <<"A", "b">>,
      extracted_text |-> PyStr(<<"b", "a", "b">>),
      classification |-> PyStr("invoice"), created_at |-> <<1>>,
      entities |-> <<[type |-> "MONEY", value |-> <<"a", "b">>]>>],
     [user_id |-> "A", filename |-> <<"c">>,
      extracted_text |-> PyStr(<<"c", "a">>),
      classification |-> PyStr("letter"), created_at |-> <<1, 5>>,
      entities |-> <<>>],
     [user_id |-> "B", filename |-> <<"B", "a", "b">>,
      extracted_text |-> PyStr(<<"a", "b", "c">>),
      classification |-> PyStr("contract"), created_at |-> <<2>>,
      entities |-> <<[type |-> "DATE", value |-> <<"a", "b", "c">>],
                     [type |-> "MONEY", value |-> <<"a">>]>>]}

\* the file of an upload of kind k
FileOf(k) ==
    [filename |-> k.filename, file_size |-> PyNum(2048),
     mime_type |-> PyStr("text/plain")]

\* the arguments upload_document gives update for an upload of kind k
ProcessedAs(k) ==
    [classification |-> k.classification, confidence_score |-> PyNum(9000),
     extracted_text |-> k.extracted_text, entities |-> PyList(k.entities),
     tags |-> PyNone, status |-> PyStr("processed")]

\* the arguments of the search calls on the store
StoreArgs ==
    [user_id : Users,
     query : {<<"a">>, <<"c">>},
     classification : {PyNone},
     entity_type : {PyStr("MONEY")},
     entity_value : {PyNone, PyStr(<<"A">>)},
     date_from : {PyNone}, date_to : {PyNone},
     page : {1}, page_size : {20}]

\* the partial queries of the suggest calls
PartialQueries == {<<"a">>, <<"c">>}

\* the limits of the suggest calls: one that cuts, and the default
Limits == {1, 10}

StoreInit ==
    /\ mime_type = "text/plain" /\ content = [text |-> <<>>, has_layer |-> TRUE]
    /\ p_env = NoEnv /\ p_state = "ready" /\ p_result = NoResult /\ p_calls = <<>>
    /\ _workflows = <<>> /\ next_id = 0 /\ document = [tags |-> <<>>]
    /\ op = "none" /\ ret = NoRet
    /\ UnusedTasks
    /\ _documents = <<>> /\ _entities = <<>>
    /\ _users = Users /\ doc_count = 0
    /\ s_args = NoSearch /\ s_ret = NoSearch /\ d_ret = NoCall

\* DocumentService.create for a new upload
CreateDocument ==
    /\ doc_count < MaxDocs
    /\ \E k \in StoreKinds :
          LET out == DocumentService_create(_documents, _entities, doc_count + 1,
                                            k.user_id, FileOf(k), k.created_at)
          IN /\ _documents' = out.docs
             /\ _entities' = out.ents
             /\ d_ret' = [call |-> "create", id |-> doc_count + 1]
    /\ doc_count' = doc_count + 1
    /\ s_args' = NoSearch /\ s_ret' = NoSearch
    /\ UNCHANGED <<_users, pipeline_vars, rule_vars, task_vars>>

\* DocumentService.update with the results of processing, for a document that
\* is in the store or was deleted
UpdateDocument ==
    /\ \E id \in 1..doc_count, k \in StoreKinds :
          /\ DocIndex(_documents, id) # 0 =>
                /\ _documents[DocIndex(_documents, id)].filename = k.filename
                /\ _documents[DocIndex(_documents, id)].user_id = k.user_id
          /\ LET out == DocumentService_update(_documents, _entities, id, ProcessedAs(k))
             IN /\ _documents' = out.docs
                /\ _entities' = out.ents
                /\ d_ret' = [call |-> "update", id |-> id, raised |-> out.raised]
    /\ s_args' = NoSearch /\ s_ret' = NoSearch
    /\ UNCHANGED <<_users, doc_count, pipeline_vars, rule_vars, task_vars>>

\* DocumentService.delete
DeleteDocument ==
    /\ \E id \in 1..doc_count :
          LET out == DocumentService_delete(_documents, _entities, id)
          IN /\ _documents' = out.docs
             /\ _entities' = out.ents
             /\ d_ret' = [call |-> "delete", id |-> id, ret |-> out.ret]
    /\ s_args' = NoSearch /\ s_ret' = NoSearch
    /\ UNCHANGED <<_users, doc_count, pipeline_vars, rule_vars, task_vars>>

\* AdminService.delete_user
DeleteUser ==
    /\ \E user_id \in Users :
          LET out == delete_user(_users, _documents, user_id)
          IN /\ _users' = out.users
             /\ _documents' = out.docs
             /\ d_ret' = [call |-> "delete_user", user_id |-> user_id, ret |-> out.ret]
    /\ s_args' = NoSearch /\ s_ret' = NoSearch
    /\ UNCHANGED <<_entities, doc_count, pipeline_vars, rule_vars, task_vars>>

\* SearchService.search
SearchStore ==
    /\ \E args \in StoreArgs :
          /\ s_args' = args
          /\ s_ret' = search(_documents, _entities, args)
          /\ d_ret' = [call |-> "search", user_id |-> args.user_id]
    /\ UNCHANGED <<_documents, _entities, _users, doc_count>>
    /\ UNCHANGED <<pipeline_vars, rule_vars, task_vars>>

\* SearchService.suggest
Suggest ==
    /\ \E user_id \in Users, q \in PartialQueries, limit \in Limits :
          d_ret' = [call |-> "suggest", user_id |-> user_id, partial_query |-> q,
                    limit |-> limit,
                    ret |-> suggest(_documents, _entities, user_id, q, limit)]
    /\ s_args' = NoSearch /\ s_ret' = NoSearch
    /\ UNCHANGED <<_documents, _entities, _users, doc_count>>
    /\ UNCHANGED <<pipeline_vars, rule_vars, task_vars>>

\* SearchService.get_filter_options
FilterOptions ==
    /\ \E user_id \in Users :
          d_ret' = [call |-> "filters", user_id |-> user_id,
                    ret |-> get_filter_options(_documents, _entities, user_id)]
    /\ s_args' = NoSearch /\ s_ret' = NoSearch
    /\ UNCHANGED <<_documents, _entities, _users, doc_count>>
    /\ UNCHANGED <<pipeline_vars, rule_vars, task_vars>>

StoreNext ==
    \/ CreateDocument
    \/ UpdateDocument
    \/ DeleteDocument
    \/ DeleteUser
    \/ SearchStore
    \/ Suggest
    \/ FilterOptions

SpecStore == StoreInit /\ [][StoreNext]_vars

----------------------------------------------------------------------------
(* evaluate on rules that record who created them and on documents that     *)
(* record who owns them                                                      *)

\* the rules of the owner model
OwnerKinds ==
    {[conditions |-> <<IsInvoice>>, actions |-> <<TagAction("high-value")>>],
     [conditions |-> <<Condition("file_size", "greater_than", PyNum(1000))>>,
      actions |-> <<TagAction("urgent"), OtherAction("notify")>>]}

\* the stores that n calls of create leave, each rule with its created_by
OwnedStoresOf(kinds, n) ==
    {[i \in 1..n |-> [id |-> i, conditions |-> k[i].conditions,
                      actions |-> k[i].actions, is_active |-> a[i],
                      created_by |-> c[i], trigger_count |-> 0]] :
        k \in [1..n -> kinds], a \in [1..n -> BOOLEAN], c \in [1..n -> Users]}

\* the documents of the owner model: an invoice and a small letter of each owner
OwnerDocuments ==
    {[user_id |-> u, classification |-> d.classification, file_size |-> d.file_size,
      mime_type |-> d.mime_type, entities |-> d.entities, tags |-> d.tags] :
        u \in Users,
        d \in {InvoiceDocument,
               [classification |-> PyStr("letter"), file_size |-> PyNum(0),
                mime_type |-> PyStr("text/plain"), entities |-> <<>>, tags |-> <<>>]}}

OwnerInit ==
    /\ mime_type = "text/plain" /\ content = [text |-> <<>>, has_layer |-> TRUE]
    /\ p_env = NoEnv /\ p_state = "ready" /\ p_result = NoResult /\ p_calls = <<>>
    /\ \E n \in 1..MaxRules :
          /\ _workflows \in OwnedStoresOf(OwnerKinds, n)
          /\ next_id = n
    /\ document \in OwnerDocuments
    /\ op = "none"
    /\ ret = NoRet
    /\ UnusedTasks
    /\ UnusedSearch

OwnerNext == Evaluate

SpecOwner == OwnerInit /\ [][OwnerNext]_vars

----------------------------------------------------------------------------
(* api/documents.py, upload_document.  From document_service.create to       *)
(* document_service.update the handler awaits nothing that suspends, so the  *)
(* request is one step of the event loop.  The handler never calls           *)
(* WorkflowService.evaluate.                                                  *)

\* the rules in the store while documents are uploaded
UploadKinds ==
    {[conditions |-> <<IsInvoice>>, actions |-> <<TagAction("high-value")>>],
     [conditions |-> <<Condition("mime_type", "equals", PyStr("text/plain"))>>,
      actions |-> <<TagAction("text")>>]}

\* the uploaded files: what stops the request before a record is created
\* (nothing, no filename, an extension that is not allowed, more than 10 MB,
\* storage_service.upload raising), the part's Content-Type and the text
UploadFiles ==
    [pre : {"ok", "no_filename", "bad_extension", "too_large", "storage_error"},
     mime : {"text/plain", NoMime},
     text : {<<>>, <<Word("invoice ")>>, <<Word("memorandum ")>>}]

\* the library calls of the pipeline during an upload
UploadEnvs == {env \in Envs("text/plain") : env.clf \in {"ok", "raises"} /\ env.ner = "ok"}

\* upload_document(file, current_user): [code, created, docs, ents]
upload_document(docs, ents, id, user_id, file, env, now) ==
    IF file.pre \in {"no_filename", "bad_extension"}
    \* lines 67-77
    THEN [code |-> 400, created |-> FALSE, docs |-> docs, ents |-> ents]
    ELSE IF file.pre \in {"too_large", "storage_error"}
    \* lines 85-93: the exception, an HTTPException too, is caught at line 138
    THEN [code |-> 500, created |-> FALSE, docs |-> docs, ents |-> ents]
    ELSE LET record == DocumentService_create(
                             docs, ents, id, user_id,
                             [filename |-> <<"a">>,
                              file_size |-> PyNum(TextLen(file.text)),
                              mime_type |-> IF file.mime = NoMime THEN PyNone
                                            ELSE PyStr(file.mime)],
                             now)
             processed == process_document([text |-> file.text, has_layer |-> TRUE],
                                           file.mime, env)
             updated == DocumentService_update(
                            record.docs, record.ents, id,
                            [classification |-> PyStr(processed.result.classification),
                             confidence_score |-> PyNum(processed.result.confidence),
                             extracted_text |-> PyStr(processed.result.text),
                             entities |-> PyList(processed.result.entities),
                             tags |-> PyNone, status |-> PyStr("processed")])
         IN IF processed.state = "raised"
            \* line 138-139: the record stays as create left it
            THEN [code |-> 500, created |-> TRUE,
                  docs |-> record.docs, ents |-> record.ents]
            ELSE [code |-> 200, created |-> TRUE,
                  docs |-> updated.docs, ents |-> updated.ents]

UploadInit ==
    /\ mime_type = "text/plain" /\ content = [text |-> <<>>, has_layer |-> TRUE]
    /\ p_env = NoEnv /\ p_state = "ready" /\ p_result = NoResult /\ p_calls = <<>>
    /\ \E n \in 1..MaxRules :
          /\ _workflows \in StoresOf(UploadKinds, n)
          /\ next_id = n
    /\ document = [tags |-> <<>>] /\ op = "none" /\ ret = NoRet
    /\ UnusedTasks
    /\ _documents = <<>> /\ _entities = <<>>
    /\ _users = Users /\ doc_count = 0
    /\ s_args = NoSearch /\ s_ret = NoSearch /\ d_ret = NoCall

\* one request POST /documents/upload
Upload ==
    /\ doc_count < MaxDocs
    /\ \E user_id \in Users, file \in UploadFiles, env \in UploadEnvs :
          LET out == upload_document(_documents, _entities, doc_count + 1, user_id,
                                     file, env, <<doc_count + 1>>)
          IN /\ _documents' = out.docs
             /\ _entities' = out.ents
             /\ doc_count' = IF out.created THEN doc_count + 1 ELSE doc_count
             /\ d_ret' = [call |-> "upload", code |-> out.code,
                          id |-> IF out.created THEN doc_count + 1 ELSE 0]
    /\ UNCHANGED <<_users, s_args, s_ret>>
    /\ UNCHANGED <<pipeline_vars, rule_vars, task_vars>>

UploadNext == Upload

SpecUpload == UploadInit /\ [][UploadNext]_vars

----------------------------------------------------------------------------
(* Properties of the pipeline, under SpecPipeline *)

\* the text extract_text gave the run
ExtractedText == extract_text(content, mime_type, p_env).text

Processed == p_state = "returned" /\ p_result.status = "processed"

\* C1: process_document never propagates an exception to its caller, whatever
\* the content, the mime type (absent and unrecognised ones included) and the
\* outcome of each capability.
C1_NeverRaises == p_state # "raised"

\* the classifier capability failed on the run's (non-empty) text
ClassifierFailed ==
    \/ p_env.clf \in {"raises", "not_loaded"}
    \/ /\ p_env.clf = "model_error"
       /\ ~IsBlank(Take(p_result.text, ClassifyMaxLength))

\* C2: whenever the classifier capability fails on a non-empty text, the run
\* returns the classification and confidence of the keyword fallback classifier
\* on that text.
C2_FallbackOnFailure ==
    (Processed /\ ClassifierFailed) =>
        /\ p_result.classification = KeywordClassifier_classify(p_result.text).label
        /\ p_result.confidence = KeywordClassifier_classify(p_result.text).confidence

\* C3: when the extracted text is empty or whitespace-only the run returns
\* status "no_text", classification "other", confidence 0 and no entities, and it
\* has called neither the classifier, nor the fallback, nor the extractor.
C3_NoTextShortCircuit ==
    (p_state = "returned" /\ IsBlank(ExtractedText)) =>
        /\ p_result.status = "no_text"
        /\ p_result.classification = "other"
        /\ p_result.confidence = 0
        /\ p_result.entities = <<>>
        /\ \A i \in 1..Len(p_calls) :
               p_calls[i] \notin {"classifier.classify", "KeywordClassifier.classify",
                                  "entity_extractor.extract"}

\* a text file of blanks only has been processed
C3_Witness ==
    /\ p_state = "returned"
    /\ mime_type = "text/plain"
    /\ content.text # <<>>
    /\ IsBlank(ExtractedText)

\* C4: every returned result has a classification among the document categories
\* (which include "other") and a confidence between 0 and 1.
C4_ClassificationInRange ==
    p_state = "returned" =>
        /\ p_result.classification \in CategorySet
        /\ 0 <= p_result.confidence
        /\ p_result.confidence <= Unit

\* the keyword fallback has classified a text with more than three hits
C4_Witness ==
    /\ Processed
    /\ p_env.clf = "raises"
    /\ p_result.classification = "invoice"
    /\ KeywordScore("invoice", Lower(p_result.text)) > 3

\* the classification is the one of the first ClassifyMaxLength characters
ClassifiedOnPrefix ==
    LET prefix == ClassifyStep(Take(p_result.text, ClassifyMaxLength), p_env.clf)
    IN /\ p_result.classification = prefix.label
       /\ p_result.confidence = prefix.confidence

\* the entities are those of the first ExtractMaxLength characters
ExtractedOnPrefix ==
    p_result.entities =
        EntityExtractor_extract(Take(p_result.text, ExtractMaxLength), p_env.ner)

\* C5 as claimed: on every classification path, the keyword fallback included,
\* the classification is decided by the first 1024 characters of the text, and
\* the entities by its first 100000 characters.
C5_PrefixOnEveryPath == Processed => (ClassifiedOnPrefix /\ ExtractedOnPrefix)

\* C5 as amended: the classification is decided by the first 1024 characters
\* whenever the injected classifier returns (the keyword fallback, used when it
\* raises, scores the whole text), and the entities by the first 100000
\* characters.
C5_PrefixUnlessFallback ==
    Processed =>
        /\ p_env.clf # "raises" => ClassifiedOnPrefix
        /\ ExtractedOnPrefix

\* the classifier answered on a text whose words lie beyond its ceiling
C5_Witness ==
    /\ Processed
    /\ p_env.clf = "ok"
    /\ TextLen(p_result.text) > ClassifyMaxLength
    /\ ZeroShotModel(p_result.text).label # p_result.classification

\* C6: no two entities of a result have the same (type, lower-cased value).
C6_NoDuplicateEntities ==
    p_state = "returned" =>
        \A i, j \in 1..Len(p_result.entities) :
            i < j => <<p_result.entities[i].type, LowerValue(p_result.entities[i].value)>>
                     # <<p_result.entities[j].type, LowerValue(p_result.entities[j].value)>>

----------------------------------------------------------------------------
(* Properties of the rule engine, under SpecRules *)

RECURSIVE Occurrences(_, _)
\* the number of times x occurs in the sequence s
Occurrences(s, x) ==
    IF s = <<>> THEN 0
    ELSE (IF Head(s) = x THEN 1 ELSE 0) + Occurrences(Tail(s), x)

\* every condition of the rule holds for the document
AllConditionsHold(doc, w) ==
    \A k \in 1..Len(w.conditions) : ConditionOutcome(doc, w.conditions[k]) = "true"

\* some condition of the rule is false for the document
SomeConditionFalse(doc, w) ==
    \E k \in 1..Len(w.conditions) : ConditionOutcome(doc, w.conditions[k]) = "false"

\* the index of the first false condition of the rule
FirstFalse(doc, w) ==
    CHOOSE k \in 1..Len(w.conditions) :
        /\ ConditionOutcome(doc, w.conditions[k]) = "false"
        /\ \A j \in 1..(k - 1) : ConditionOutcome(doc, w.conditions[j]) # "false"

\* C7: in one evaluate call every active rule whose conditions all hold is
\* returned exactly once and has its trigger_count increased by exactly 1, and
\* no trigger_count changes by more than 1.
C7_MatchingRulesTriggerOnce ==
    [][op' = "evaluate" =>
        \A i \in 1..Len(_workflows) :
            /\ (_workflows[i].is_active /\ AllConditionsHold(document, _workflows[i])) =>
                  /\ ret'.state = "returned"
                  /\ Occurrences(ret'.triggered, _workflows[i].id) = 1
                  /\ _workflows'[i].trigger_count = _workflows[i].trigger_count + 1
            /\ _workflows'[i].trigger_count - _workflows[i].trigger_count \in {0, 1}]_vars

\* C8: the active rule [classification equals "invoice", entity_MONEY
\* greater_than 10000] -> tag("high-value"), evaluated against an invoice with
\* one MONEY entity "15000", is returned exactly once, the document's tags hold
\* "high-value" exactly once, and its trigger_count increases by 1.
C8_HighValueRuleTriggers ==
    [][(/\ op' = "evaluate"
        /\ document.classification = PyStr("invoice")
        /\ document.entities = <<[type |-> "MONEY", value |-> "15000"]>>) =>
        \A i \in 1..Len(_workflows) :
            (/\ _workflows[i].is_active
             /\ _workflows[i].conditions = HighValueRule.conditions
             /\ _workflows[i].actions = HighValueRule.actions) =>
                /\ ret'.state = "returned"
                /\ Occurrences(ret'.triggered, _workflows[i].id) = 1
                /\ Occurrences(document'.tags, "high-value") = 1
                /\ _workflows'[i].trigger_count = _workflows[i].trigger_count + 1]_vars

\* C9: a rule with a false condition is not returned by evaluate, none of its
\* actions is executed, its trigger_count is unchanged, and no condition after
\* its first false one is evaluated.
C9_FalseConditionNoEffect ==
    [][op' = "evaluate" =>
        \A i \in 1..Len(_workflows) :
            SomeConditionFalse(document, _workflows[i]) =>
                /\ ret'.state = "returned" =>
                       Occurrences(ret'.triggered, _workflows[i].id) = 0
                /\ ret'.acted[i] = 0
                /\ _workflows'[i].trigger_count = _workflows[i].trigger_count
                /\ ret'.checked[i] <= FirstFalse(document, _workflows[i])]_vars

\* evaluate returned although an active rule holds, after its first, false
\* condition, one that cannot be evaluated
C9_Witness ==
    /\ op = "evaluate"
    /\ ret.state = "returned"
    /\ \E i \in 1..Len(_workflows) :
          /\ _workflows[i].is_active
          /\ Len(_workflows[i].conditions) = 2
          /\ ConditionOutcome(document, _workflows[i].conditions[1]) = "false"
          /\ ConditionOutcome(document, _workflows[i].conditions[2]) = "raise"
          /\ ret.checked[i] = 1

\* C10: evaluate never returns an inactive rule, executes none of its actions
\* and leaves its trigger_count unchanged, however often it is called.
C10_InactiveNeverTriggers ==
    [][op' = "evaluate" =>
        \A i \in 1..Len(_workflows) :
            ~_workflows[i].is_active =>
                /\ ret'.state = "returned" =>
                       Occurrences(ret'.triggered, _workflows[i].id) = 0
                /\ ret'.acted[i] = 0
                /\ ret'.checked[i] = 0
                /\ _workflows'[i].trigger_count = _workflows[i].trigger_count]_vars

\* evaluate has run on a document that an inactive rule, triggered before,
\* still matches
C10_Witness ==
    /\ op = "evaluate"
    /\ ret.state = "returned"
    /\ \E i \in 1..Len(_workflows) :
          /\ ~_workflows[i].is_active
          /\ _workflows[i].trigger_count > 0
          /\ AllConditionsHold(document, _workflows[i])

----------------------------------------------------------------------------
(* Properties of evaluate on malformed rules, under SpecEngine and SpecCondition *)

\* the rule has a tag action whose params lack "tag"
HasMalformedAction(w) ==
    \E k \in 1..Len(w.actions) : w.actions[k].type = "tag" /\ w.actions[k].tag = NoKey

\* C11: in one evaluate call, whatever another rule raises, the call returns,
\* every active rule has its conditions evaluated, and every active rule whose
\* conditions all hold and whose actions are well-formed is returned.
C11_RuleIsolation ==
    [][op' = "evaluate" =>
        /\ ret'.state = "returned"
        /\ \A i \in 1..Len(_workflows) :
               _workflows[i].is_active =>
                  /\ ret'.checked[i] >= 1
                  /\ (/\ AllConditionsHold(document, _workflows[i])
                      /\ ~HasMalformedAction(_workflows[i])) =>
                         Occurrences(ret'.triggered, _workflows[i].id) = 1]_vars

\* float(x) fails
Uncoercible(x) == ~PyFloat(x).ok

\* the cases of an invalid condition, for a document value that is not None
InvalidCondition(doc_value, operator, condition_value) ==
    /\ doc_value.t # "none"
    /\ \/ /\ operator \in {"greater_than", "less_than"}
          /\ Uncoercible(doc_value) \/ Uncoercible(condition_value)
       \/ /\ operator = "contains"
          /\ doc_value.t # "list"
          /\ condition_value.t # "str"
       \/ /\ operator = "in"
          /\ condition_value.t \notin {"list", "str"}

\* C12: an invalid condition (an operand of greater_than or less_than that is
\* not a number, contains with a non-string value on a scalar field, in with a
\* value that is not a collection) evaluates to false and the call returns.
C12_InvalidConditionIsFalse ==
    [][op' = "evaluate" =>
        \A i \in 1..Len(_workflows) : \A k \in 1..Len(_workflows[i].conditions) :
            LET c == _workflows[i].conditions[k]
            IN InvalidCondition(FieldValue(document, c.field), c.operator, c.value) =>
                  /\ ConditionOutcome(document, c) = "false"
                  /\ ret'.state = "returned"]_vars

\* the document lacks the field, or holds None for it
MissingOrNull(doc, field) ==
    IF field \in {"classification", "file_size", "mime_type"}
    THEN doc[field] \in {Absent, PyNone}
    ELSE field \notin {"entity_MONEY", "entity_money", "tags"}

\* C13: a condition on a field that the document lacks, or holds None for, is
\* false whatever its operator: the call returns and the rule is not triggered.
C13_MissingFieldIsFalse ==
    [][op' = "evaluate" =>
        \A i \in 1..Len(_workflows) : \A k \in 1..Len(_workflows[i].conditions) :
            LET c == _workflows[i].conditions[k]
            IN MissingOrNull(document, c.field) =>
                  /\ ConditionOutcome(document, c) = "false"
                  /\ ret'.state = "returned"
                  /\ Occurrences(ret'.triggered, _workflows[i].id) = 0]_vars

NoDuplicates(tags) == \A i, j \in 1..Len(tags) : tags[i] = tags[j] => i = j

\* an active rule has a condition on the tags
SomeRuleReadsTags(wfs) ==
    \E i \in 1..Len(wfs) :
        /\ wfs[i].is_active
        /\ \E k \in 1..Len(wfs[i].conditions) : wfs[i].conditions[k].field = "tags"

\* the tags a second evaluate call would leave are those the first one left
SecondCallAddsNothing == evaluate(_workflows', document').doc.tags = document'.tags

\* C14 as claimed: evaluate leaves tags without duplicates as it found them, and
\* evaluating twice gives the tags that evaluating once gives.
C14_TagsIdempotent ==
    [][(op' = "evaluate" /\ NoDuplicates(document.tags)) =>
        /\ NoDuplicates(document'.tags)
        /\ SecondCallAddsNothing]_vars

\* C14 as amended: evaluate leaves tags without duplicates as it found them, and
\* evaluating twice gives the tags that evaluating once gives unless an active
\* rule has a condition on the document's tags.
C14_TagsIdempotentUnlessRead ==
    [][(op' = "evaluate" /\ NoDuplicates(document.tags)) =>
        /\ NoDuplicates(document'.tags)
        /\ ~SomeRuleReadsTags(_workflows) => SecondCallAddsNothing]_vars

\* two rules carrying one tag have both triggered a second time, and the
\* document holds the tag
C14_Witness ==
    /\ op = "evaluate"
    /\ ret.state = "returned"
    /\ \E i, j \in 1..Len(_workflows) :
          /\ i # j
          /\ _workflows[i].actions = _workflows[j].actions
          /\ _workflows[i].actions = <<TagAction("high-value")>>
          /\ _workflows[i].trigger_count = 2 /\ _workflows[j].trigger_count = 2
          /\ ret.triggered = <<_workflows[i].id, _workflows[j].id>>
          /\ Occurrences(document.tags, "high-value") = 1

\* the rule has an action whose type has no branch in _execute_actions
HasUnknownAction(w) ==
    \E k \in 1..Len(w.actions) : w.actions[k].type \notin KnownActionTypes

\* the store with the actions of unknown type taken out of every rule
WithoutUnknownActions(wfs) ==
    [i \in 1..Len(wfs) |->
        [wfs[i] EXCEPT !.actions =
            SelectSeq(@, LAMBDA a : a.type \in KnownActionTypes)]]

\* nothing but an unknown action type could make the call raise
OtherwiseWellFormed(wfs, doc) ==
    \A i \in 1..Len(wfs) :
        wfs[i].is_active =>
            /\ ~HasMalformedAction(wfs[i])
            /\ \A k \in 1..Len(wfs[i].conditions) :
                   ConditionOutcome(doc, wfs[i].conditions[k]) # "raise"

\* C15: an action of unknown type is ignored.  The call ends as it would
\* without that action (same outcome, same triggered rules, same document); and
\* when nothing else is malformed the call returns, each active rule holding
\* such an action whose conditions hold runs all its actions, the tags of its
\* tag actions are on the document, it is returned once and its trigger_count
\* is increased by 1.
C15_UnknownActionIgnored ==
    [][op' = "evaluate" =>
        /\ LET plain == evaluate(WithoutUnknownActions(_workflows), document)
           IN /\ ret'.state = plain.state
              /\ ret'.triggered = plain.triggered
              /\ document' = plain.doc
        /\ OtherwiseWellFormed(_workflows, document) =>
              /\ ret'.state = "returned"
              /\ \A i \in 1..Len(_workflows) :
                    (/\ _workflows[i].is_active
                     /\ HasUnknownAction(_workflows[i])
                     /\ AllConditionsHold(document, _workflows[i])) =>
                        /\ ret'.acted[i] = Len(_workflows[i].actions)
                        /\ \A k \in 1..Len(_workflows[i].actions) :
                               _workflows[i].actions[k].type = "tag" =>
                                  Occurrences(document'.tags,
                                              _workflows[i].actions[k].tag) = 1
                        /\ Occurrences(ret'.triggered, _workflows[i].id) = 1
                        /\ _workflows'[i].trigger_count =
                              _workflows[i].trigger_count + 1]_vars

\* the only rule of the store holds an action of unknown type before its last
\* tag action; it has triggered and its last tag is on the document
C15_Witness ==
    /\ op = "evaluate"
    /\ ret.state = "returned"
    /\ Len(_workflows) = 1
    /\ HasUnknownAction(_workflows[1])
    /\ _workflows[1].actions[Len(_workflows[1].actions)].type = "tag"
    /\ ret.triggered = <<_workflows[1].id>>
    /\ _workflows[1].trigger_count = 1
    /\ document.tags = <<"urgent", "high-value">>

----------------------------------------------------------------------------
(* trigger_count over the life of a rule, under SpecRules *)

\* C16: the trigger_count of a rule that exists never decreases; update and
\* toggle (and create and delete, for the other rules) leave it as it was; it
\* changes only in an evaluate call, for an active rule whose conditions hold.
C16_TriggerCountPersists ==
    [][\A i \in 1..Len(_workflows) : \A j \in 1..Len(_workflows') :
          _workflows[i].id = _workflows'[j].id =>
             /\ _workflows'[j].trigger_count >= _workflows[i].trigger_count
             /\ op' \in {"update", "toggle", "create", "delete"} =>
                   _workflows'[j].trigger_count = _workflows[i].trigger_count
             /\ _workflows'[j].trigger_count # _workflows[i].trigger_count =>
                   /\ op' = "evaluate"
                   /\ _workflows[i].is_active
                   /\ AllConditionsHold(document, _workflows[i])]_vars

\* a rule that has triggered has just been edited or toggled
C16_Witness ==
    /\ op \in {"update", "toggle"}
    /\ Len(_workflows) = 1
    /\ _workflows[1].trigger_count > 0

----------------------------------------------------------------------------
(* Properties of calls in flight at once, under SpecConcurrent *)

EvaluateTasks == {t \in 1..Len(tasks) : tasks[t].kind = "evaluate"}

\* the number of evaluate calls that have triggered rule id
TriggeredBy(id) ==
    Cardinality({t \in EvaluateTasks : Occurrences(tasks[t].triggered, id) > 0})

\* C17: no increment of trigger_count is lost.  Whatever the order in which
\* the calls in flight run, the trigger_count of a rule is the number of
\* evaluate calls that have triggered it: n calls that each trigger the rule
\* leave it n higher.
C17_NoLostIncrement ==
    \A i \in 1..Len(_workflows) :
        /\ _workflows[i].trigger_count = TriggeredBy(_workflows[i].id)
        /\ \A t \in EvaluateTasks :
               Occurrences(tasks[t].triggered, _workflows[i].id) <= 1

\* MaxTasks evaluate calls, on different documents, have all triggered one rule
C17_Witness ==
    /\ Len(tasks) = MaxTasks
    /\ \A t \in 1..Len(tasks) : tasks[t].kind = "evaluate" /\ tasks[t].pc = "done"
    /\ \E t, u \in 1..Len(tasks) : tasks[t].doc # tasks[u].doc
    /\ \E i \in 1..Len(_workflows) :
          /\ \A t \in 1..Len(tasks) :
                 Occurrences(tasks[t].triggered, _workflows[i].id) = 1
          /\ _workflows[i].trigger_count = MaxTasks

\* the versions a rule can have: the conditions and the actions of one kind
RuleVersions ==
    {[conditions |-> ConcurrentKinds[k].conditions,
      actions |-> ConcurrentKinds[k].actions] : k \in 1..Len(ConcurrentKinds)}

\* C18: an evaluate call in flight with update, toggle, delete and create
\* calls never fails because of them, and for each rule it triggers, the
\* conditions it checked and the actions it executed are those of one version
\* of the rule.
C18_NoHalfUpdatedRule ==
    \A t \in EvaluateTasks :
        /\ tasks[t].pc # "raised"
        /\ \A k \in 1..Len(tasks[t].used) : tasks[t].used[k] \in RuleVersions

\* an evaluate call has triggered a rule with the version that an update call
\* in flight with it has since replaced
C18_Witness ==
    \E t, u \in 1..Len(tasks) :
        /\ tasks[t].kind = "evaluate" /\ tasks[t].pc = "done"
        /\ tasks[u].kind = "update" /\ tasks[u].pc = "done"
        /\ tasks[t].triggered = <<tasks[u].id>>
        /\ \E i \in 1..Len(_workflows) :
              /\ _workflows[i].id = tasks[u].id
              /\ _workflows[i].conditions # tasks[t].used[1].conditions
              /\ _workflows[i].actions # tasks[t].used[1].actions

----------------------------------------------------------------------------
(* Properties of search, under SpecSearch *)

\* the document of a result
DocOf(r) == _documents[CHOOSE i \in 1..Len(_documents) : _documents[i].id = r.id]

\* the entities of document doc whose value contains the query
QueryEntities(doc) ==
    {k \in 1..Len(EntitiesOf(_entities, doc.id)) :
        SIn(SLower(s_args.query), SLower(EntitiesOf(_entities, doc.id)[k].value))}

\* the entities of document doc that satisfy both entity filters
FilterEntities(doc) ==
    {k \in 1..Len(EntitiesOf(_entities, doc.id)) :
        /\ EntitiesOf(_entities, doc.id)[k].type = s_args.entity_type.v
        /\ SIn(SLower(s_args.entity_value.v),
               SLower(EntitiesOf(_entities, doc.id)[k].value))}

\* the entity-filter bonus as stated: 0.5 once for the document
FilterBonus(doc) ==
    IF /\ TruthyName(s_args.entity_type)
       /\ Truthy(s_args.entity_value)
       /\ FilterEntities(doc) # {}
    THEN 5 ELSE 0

\* what the query itself contributes to the score
QueryScore(doc) ==
    (IF SIn(SLower(s_args.query), SLower(doc.filename)) THEN 2 * ScoreUnit ELSE 0)
    + (IF SIn(SLower(s_args.query), SLower(TextOrEmpty(doc))) THEN ScoreUnit ELSE 0)
    + 15 * Cardinality(QueryEntities(doc))

Searched == s_ret.total >= 0

\* C19: the score of every ranked document is 2.0 for a filename match, plus
\* 1.0 for a text match, plus 1.5 for each entity whose value contains the
\* query, plus the entity-filter bonus, uncapped.
C19_ScoreIsAdditive ==
    Searched =>
        \A k \in 1..Len(s_ret.ranked) :
            s_ret.ranked[k].score =
                QueryScore(DocOf(s_ret.ranked[k])) + FilterBonus(DocOf(s_ret.ranked[k]))

\* C20: the entity-filter bonus, the part of the score that the query does not
\* account for, is 0.5 when both filters are supplied and some entity of the
\* document satisfies them, however many do, and 0 otherwise.
C20_FilterBonusOncePerDocument ==
    Searched =>
        \A k \in 1..Len(s_ret.ranked) :
            s_ret.ranked[k].score - QueryScore(DocOf(s_ret.ranked[k])) =
                IF /\ TruthyName(s_args.entity_type)
                   /\ Truthy(s_args.entity_value)
                   /\ \E e \in 1..Len(EntitiesOf(_entities, s_ret.ranked[k].id)) :
                         e \in FilterEntities(DocOf(s_ret.ranked[k]))
                THEN ScoreUnit \div 2 ELSE 0

\* the documents of the caller that the query or the entity filters give a
\* positive score
Scoring(doc) ==
    /\ doc.user_id = s_args.user_id
    /\ QueryScore(doc) + FilterBonus(doc) > 0

\* doc has the classification asked for, if one was asked for
ClassificationKept(doc) ==
    TruthyName(s_args.classification) =>
        /\ doc.classification.t = "str"
        /\ doc.classification.v = s_args.classification.v

\* doc was created in [date_from, date_to], each end counted only if supplied
InRange(doc) ==
    /\ Truthy(s_args.date_from) =>
           doc.created_at = s_args.date_from.v \/ SLess(s_args.date_from.v, doc.created_at)
    /\ Truthy(s_args.date_to) =>
           doc.created_at = s_args.date_to.v \/ SLess(doc.created_at, s_args.date_to.v)

\* the ids of the ranked results
RankedIds == {s_ret.ranked[k].id : k \in 1..Len(s_ret.ranked)}

\* C21: the pre-filters are applied before scoring.  Every document that is
\* returned or counted in the total has the classification asked for and was
\* created in the inclusive range [date_from, date_to]; and a scoring document
\* of the caller that passes the filters, one created exactly at date_from or
\* date_to included, is counted.
C21_PreFiltersApplied ==
    Searched =>
        /\ s_ret.total = Len(s_ret.ranked)
        /\ \A k \in 1..Len(s_ret.results) : s_ret.results[k].id \in RankedIds
        /\ \A k \in 1..Len(s_ret.ranked) :
              /\ ClassificationKept(DocOf(s_ret.ranked[k]))
              /\ InRange(DocOf(s_ret.ranked[k]))
        /\ \A i \in 1..Len(_documents) :
              (/\ Scoring(_documents[i])
               /\ ClassificationKept(_documents[i])
               /\ InRange(_documents[i])) => _documents[i].id \in RankedIds

\* a call with all three filters keeps a document created at date_from =
\* date_to and drops one of another classification that the query matches
C21_Witness ==
    /\ Searched
    /\ TruthyName(s_args.classification)
    /\ Truthy(s_args.date_from) /\ Truthy(s_args.date_to)
    /\ \E k \in 1..Len(s_ret.results) :
          DocOf(s_ret.results[k]).created_at = s_args.date_from.v
    /\ \E i \in 1..Len(_documents) :
          /\ Scoring(_documents[i])
          /\ ~ClassificationKept(_documents[i]) \/ ~InRange(_documents[i])
          /\ _documents[i].id \notin RankedIds

\* the query is in the filename of doc and nowhere else, and no entity filter
\* adds to the score: 2.0
FilenameOnly(doc) ==
    /\ SIn(SLower(s_args.query), SLower(doc.filename))
    /\ ~SIn(SLower(s_args.query), SLower(TextOrEmpty(doc)))
    /\ QueryEntities(doc) = {}
    /\ FilterBonus(doc) = 0

\* the query is in the text of doc and nowhere else: 1.0
TextOnly(doc) ==
    /\ ~SIn(SLower(s_args.query), SLower(doc.filename))
    /\ SIn(SLower(s_args.query), SLower(TextOrEmpty(doc)))
    /\ QueryEntities(doc) = {}
    /\ FilterBonus(doc) = 0

\* C22: no document of score 0 is returned or counted, the results are in
\* order of non-increasing score, and a document that matches the query in
\* its filename only (2.0) stands before one that matches in its text only
\* (1.0).
C22_RankedByScore ==
    Searched =>
        /\ \A k \in 1..Len(s_ret.ranked) :
              /\ s_ret.ranked[k].score > 0
              /\ QueryScore(DocOf(s_ret.ranked[k])) + FilterBonus(DocOf(s_ret.ranked[k])) > 0
        /\ \A k \in 1..Len(s_ret.results) : s_ret.results[k].score > 0
        /\ \A j, k \in 1..Len(s_ret.ranked) :
              j < k => s_ret.ranked[j].score >= s_ret.ranked[k].score
        /\ \A j, k \in 1..Len(s_ret.results) :
              j < k => s_ret.results[j].score >= s_ret.results[k].score
        /\ \A j, k \in 1..Len(s_ret.ranked) :
              (/\ FilenameOnly(DocOf(s_ret.ranked[j]))
               /\ TextOnly(DocOf(s_ret.ranked[k]))) =>
                  /\ s_ret.ranked[j].score = 2 * ScoreUnit
                  /\ s_ret.ranked[k].score = ScoreUnit
                  /\ j < k

\* the store holds the text-only document first and the filename-only one
\* second, and the page returns them the other way round
C22_Witness ==
    /\ Searched
    /\ Len(s_ret.results) = 2
    /\ FilenameOnly(DocOf(s_ret.results[1]))
    /\ TextOnly(DocOf(s_ret.results[2]))
    /\ s_ret.results[1].id > s_ret.results[2].id

\* a document of the caller that passes the filters and scores 0 is left out
C22_WitnessZero ==
    /\ Searched
    /\ \E i \in 1..Len(_documents) :
          /\ _documents[i].user_id = s_args.user_id
          /\ ClassificationKept(_documents[i]) /\ InRange(_documents[i])
          /\ QueryScore(_documents[i]) + FilterBonus(_documents[i]) = 0
          /\ _documents[i].id \notin RankedIds
    /\ s_ret.total >= 1

----------------------------------------------------------------------------
(* Properties of paging, under SpecPages *)

\* the documents that end with a score above 0: those of the caller that pass
\* the filters and that the query or the entity filters match
Matching ==
    {i \in 1..Len(_documents) :
        /\ Scoring(_documents[i])
        /\ ClassificationKept(_documents[i])
        /\ InRange(_documents[i])}

\* (page - 1) * pageSize
PageOffset == (s_args.page - 1) * s_args.page_size

\* C23: for page >= 1, the returned list is the ranked list from offset
\* (page - 1) * pageSize on, at most pageSize of it, and the total is the
\* number of documents that score above 0, whatever the page and the page
\* size; 25 matches, page 3 and page size 10 give 5 results and total 25, and
\* a page past the end is empty with the same total.
C23_Pagination ==
    (Searched /\ s_args.page >= 1) =>
        /\ s_ret.total = Cardinality(Matching)
        /\ Len(s_ret.results) <= s_args.page_size
        /\ Len(s_ret.results) =
              Max2(0, Min2(s_args.page_size, s_ret.total - PageOffset))
        /\ \A k \in 1..Len(s_ret.results) :
              s_ret.results[k] = s_ret.ranked[PageOffset + k]
        /\ (Cardinality(Matching) = 25 /\ s_args.page = 3 /\ s_args.page_size = 10) =>
              (Len(s_ret.results) = 5 /\ s_ret.total = 25)
        /\ PageOffset >= Cardinality(Matching) =>
              (s_ret.results = <<>> /\ s_ret.total = Cardinality(Matching))

\* 25 of the 26 documents match; page 3 of pages of 10 holds the last 5
C23_Witness ==
    /\ Searched
    /\ Len(_documents) = 26 /\ Cardinality(Matching) = 25
    /\ s_args.page = 3 /\ s_args.page_size = 10
    /\ Len(s_ret.results) = 5 /\ s_ret.total = 25
    /\ s_ret.results[5] = s_ret.ranked[25]

\* page 4 of pages of 10 is past the end of 25 matches
C23_WitnessPastEnd ==
    /\ Searched
    /\ Cardinality(Matching) = 25
    /\ s_args.page = 4 /\ s_args.page_size = 10
    /\ s_ret.results = <<>> /\ s_ret.total = 25

----------------------------------------------------------------------------
(* Properties of the document store and its queries, under SpecStore *)

\* the documents of owner u, in store order
OwnedBy(docs, u) == SelectSeq(docs, LAMBDA d : d.user_id = u)

\* the entity lists of the documents of owner u
OwnEntities(docs, ents, u) ==
    [i \in 1..Len(OwnedBy(docs, u)) |-> EntitiesOf(ents, OwnedBy(docs, u)[i].id)]

\* the entity values of the documents of owner u
OwnValues(u) ==
    UNION {{OwnEntities(_documents, _entities, u)[i][k].value :
              k \in 1..Len(OwnEntities(_documents, _entities, u)[i])} :
           i \in 1..Len(OwnedBy(_documents, u))}

\* the entity types of the documents of owner u
OwnTypes(u) ==
    UNION {{OwnEntities(_documents, _entities, u)[i][k].type :
              k \in 1..Len(OwnEntities(_documents, _entities, u)[i])} :
           i \in 1..Len(OwnedBy(_documents, u))}

\* what the last query returned holds data of the caller's documents only
OnlyOwnData ==
    /\ d_ret.call = "search" =>
          \A k \in 1..Len(s_ret.ranked) :
              \E i \in 1..Len(_documents) :
                  /\ _documents[i].id = s_ret.ranked[k].id
                  /\ _documents[i].user_id = s_args.user_id
                  /\ _documents[i].filename = s_ret.ranked[k].filename
                  /\ _documents[i].classification = s_ret.ranked[k].classification
                  /\ _documents[i].created_at = s_ret.ranked[k].created_at
    /\ d_ret.call = "suggest" =>
          \A k \in 1..Len(d_ret.ret) :
              \/ \E i \in 1..Len(_documents) :
                    /\ _documents[i].user_id = d_ret.user_id
                    /\ _documents[i].filename = d_ret.ret[k]
              \/ d_ret.ret[k] \in OwnValues(d_ret.user_id)
    /\ d_ret.call = "filters" =>
          /\ \A k \in 1..Len(d_ret.ret.classifications) :
                \E i \in 1..Len(_documents) :
                    /\ _documents[i].user_id = d_ret.user_id
                    /\ _documents[i].classification = PyStr(d_ret.ret.classifications[k])
          /\ \A k \in 1..Len(d_ret.ret.entity_types) :
                d_ret.ret.entity_types[k] \in OwnTypes(d_ret.user_id)
          /\ \A m \in {d_ret.ret.date_range.min, d_ret.ret.date_range.max} :
                m.t # "none" =>
                    \E i \in 1..Len(_documents) :
                        /\ _documents[i].user_id = d_ret.user_id
                        /\ _documents[i].created_at = m.v

\* the step changes the stores and leaves the documents of owner u and their
\* entities as they were
OthersChanged(u) ==
    /\ _documents' # _documents \/ _entities' # _entities
    /\ OwnedBy(_documents', u) = OwnedBy(_documents, u)
    /\ OwnEntities(_documents', _entities', u) = OwnEntities(_documents, _entities, u)

\* every query of owner u returns after the step what it returned before it
ViewsUnchanged(u) ==
    /\ \A args \in {a \in StoreArgs : a.user_id = u} :
          search(_documents', _entities', args) = search(_documents, _entities, args)
    /\ \A q \in PartialQueries, limit \in Limits :
          suggest(_documents', _entities', u, q, limit)
              = suggest(_documents, _entities, u, q, limit)
    /\ get_filter_options(_documents', _entities', u)
          = get_filter_options(_documents, _entities, u)

\* C24: search, suggest and the filter options are owner-scoped.  What they
\* return to an owner holds data of that owner's documents only, and a step
\* that adds, changes or deletes documents or entities of other owners leaves
\* every result, total, suggestion list and filter option of the owner as it
\* was.
C24_OwnerScoped ==
    /\ []OnlyOwnData
    /\ [][\A u \in Users : OthersChanged(u) => ViewsUnchanged(u)]_vars

\* owner A searches and gets a result while the store holds a processed
\* document of owner B that the query matches
C24_Witness ==
    /\ d_ret.call = "search"
    /\ s_args.user_id = "A"
    /\ s_ret.total >= 1
    /\ \E i \in 1..Len(_documents) :
          /\ _documents[i].user_id = "B"
          /\ _documents[i].status = "processed"
          /\ SIn(SLower(s_args.query), SLower(_documents[i].filename))
          /\ _documents[i].id \notin RankedIds

\* the ids of the documents in the store
DocIds == {_documents[i].id : i \in 1..Len(_documents)}

\* C28: deleting documents cascades to their entities.  After any sequence of
\* create, update, delete and delete_user calls the entity store holds an
\* entry only for the ids of documents that are in the document store.
C28_NoOrphanedEntities == DOMAIN _entities \subseteq DocIds

----------------------------------------------------------------------------
(* More properties of search, under SpecSearch *)

\* the query is in the filename, in the text or in an entity value of doc
MatchesQuery(doc) ==
    \/ SIn(SLower(s_args.query), SLower(doc.filename))
    \/ SIn(SLower(s_args.query), SLower(TextOrEmpty(doc)))
    \/ \E k \in 1..Len(EntitiesOf(_entities, doc.id)) :
          SIn(SLower(s_args.query), SLower(EntitiesOf(_entities, doc.id)[k].value))

\* C29: every document that search returns or counts matches the query
\* itself, in its filename, its text or one of its entity values; the entity
\* filters bring in no document that the query does not match.
C29_ResultsMatchQuery ==
    Searched =>
        /\ \A k \in 1..Len(s_ret.ranked) : MatchesQuery(DocOf(s_ret.ranked[k]))
        /\ \A k \in 1..Len(s_ret.results) : MatchesQuery(DocOf(s_ret.results[k]))

----------------------------------------------------------------------------
(* More properties of evaluate, under SpecEngine *)

\* the rules that the step counts as triggered
Counted ==
    {i \in 1..Len(_workflows) :
        _workflows'[i].trigger_count = _workflows[i].trigger_count + 1}

RECURSIVE TagsAfter(_, _, _)
\* tags after the tag actions of actions, from action j on, each tag added
\* once
TagsAfter(tags, actions, j) ==
    IF j > Len(actions) THEN tags
    ELSE IF actions[j].type = "tag" /\ actions[j].tag \notin {tags[k] : k \in 1..Len(tags)}
    THEN TagsAfter(Append(tags, actions[j].tag), actions, j + 1)
    ELSE TagsAfter(tags, actions, j + 1)

RECURSIVE TagsOfCounted(_, _)
\* tags after all the actions of the counted rules, from rule i on, and of no
\* other rule
TagsOfCounted(tags, i) ==
    IF i > Len(_workflows) THEN tags
    ELSE IF i \in Counted
    THEN TagsOfCounted(TagsAfter(tags, _workflows[i].actions, 1), i + 1)
    ELSE TagsOfCounted(tags, i + 1)

\* C30: triggering a rule is all or nothing.  In a call of evaluate every rule
\* either is counted and is in the triggered result, with all its actions
\* executed, or is not counted and none of its actions has changed the
\* document: the tags the call leaves are those of the counted rules.
C30_AllOrNothing ==
    [][op' = "evaluate" =>
          /\ \A i \in 1..Len(_workflows) :
                \/ /\ i \in Counted
                   /\ ret'.state = "returned"
                   /\ \E k \in 1..Len(ret'.triggered) : ret'.triggered[k] = _workflows[i].id
                \/ _workflows'[i].trigger_count = _workflows[i].trigger_count
          /\ document'.tags = TagsOfCounted(document.tags, 1)]_vars

\* the last clause of C30 alone: a call never leaves the document tagged by a
\* rule that is not counted as triggered
C30_PartlyExecuted ==
    [][op' = "evaluate" => document'.tags = TagsOfCounted(document.tags, 1)]_vars

----------------------------------------------------------------------------
(* Properties of evaluate on owned rules and documents, under SpecOwner *)

\* the rules created by another user than the owner of the document
Foreign == {i \in 1..Len(_workflows) : _workflows[i].created_by # document.user_id}

\* C25: rules are not shared across owners.  A call of evaluate on a document
\* never triggers a rule created by another user than the document's owner,
\* never increments its trigger_count and never executes its actions.
C25_RulesNotShared ==
    [][op' = "evaluate" =>
          /\ \A i \in Foreign :
                /\ _workflows'[i].trigger_count = _workflows[i].trigger_count
                /\ \A k \in 1..Len(ret'.triggered) : ret'.triggered[k] # _workflows[i].id
                /\ ret'.acted[i] = 0
          /\ Foreign = 1..Len(_workflows) => document' = document]_vars

----------------------------------------------------------------------------
(* Properties of uploads, under SpecUpload *)

\* the stored record of document id
Stored(id) == _documents[DocIndex(_documents, id)]

\* the request that has just ended created the record of document id
UploadCreated(id) == d_ret.call = "upload" /\ d_ret.id = id /\ id # 0

\* C27: once an upload has created a document record, the request ends with
\* that record out of status "processing" and holding the pipeline's
\* classification, confidence, text and entities; no record is left in
\* "processing" after a request has ended.
C27_UploadCompletes ==
    /\ \A i \in 1..Len(_documents) : _documents[i].status # "processing"
    /\ \A id \in 1..doc_count :
          UploadCreated(id) =>
             /\ Stored(id).status = "processed"
             /\ Stored(id).classification.t = "str"
             /\ Stored(id).confidence_score.t = "num"
             /\ Stored(id).extracted_text.t = "str"

\* an upload of a part without a Content-Type has ended with its record still
\* in "processing"
C27_LeftProcessing ==
    \E id \in 1..doc_count :
        /\ UploadCreated(id)
        /\ d_ret.code = 500
        /\ Stored(id).mime_type.t = "none"
        /\ Stored(id).status = "processing"

\* the document evaluate would be given after the upload of document id: the
\* stored record with its entities
ProcessedDocument(docs, ents, id) ==
    LET d == docs[DocIndex(docs, id)]
    IN [classification |-> d.classification, file_size |-> d.file_size,
        mime_type |-> d.mime_type, entities |-> ents[id], tags |-> d.tags]

\* C26: an upload that processes a document evaluates the rules on the
\* updated document before it ends: every active rule whose conditions match
\* the processed document has its tags on the stored document and its
\* trigger_count incremented.
C26_UploadEvaluatesRules ==
    [][(d_ret'.call = "upload" /\ d_ret'.code = 200) =>
          \A i \in 1..Len(_workflows) :
              (/\ _workflows[i].is_active
               /\ AllConditionsHold(ProcessedDocument(_documents', _entities', d_ret'.id),
                                    _workflows[i])) =>
                 /\ _workflows'[i].trigger_count = _workflows[i].trigger_count + 1
                 /\ \A k \in 1..Len(_workflows[i].actions) :
                       _workflows[i].actions[k].type = "tag" =>
                          LET tags == ProcessedDocument(_documents', _entities',
                                                        d_ret'.id).tags
                          IN \E t \in 1..Len(tags) :
                                 tags[t] = _workflows[i].actions[k].tag]_vars

\* an upload has processed an invoice while an active rule for invoices is in
\* the store, and the stored invoice has no tag and the rule no trigger
C26_InvoiceNotTagged ==
    /\ d_ret.call = "upload" /\ d_ret.code = 200
    /\ Stored(d_ret.id).classification = PyStr("invoice")
    /\ Stored(d_ret.id).tags = <<>>
    /\ \E i \in 1..Len(_workflows) :
          /\ _workflows[i].is_active
          /\ _workflows[i].conditions = <<IsInvoice>>
          /\ _workflows[i].trigger_count = 0

====
